---- MODULE Spec2Model ----
(***************************************************************************)
(* Model of the fastmcp-elasticsearch server: the index registry           *)
(* (config/indices.py), input validation (utils/validation.py), the search *)
(* primitives (tools/primitives/{search,aggregate,query}.py) and the       *)
(* fetch_user_logs flow (server.py).                                       *)
(*                                                                         *)
(* Conventions.  A Python dict is a TLA+ function, `d.get(k)` is a domain  *)
(* test.  Python's None is the string None where the value is otherwise a  *)
(* string.  Registry patterns are opaque strings (only their truthiness    *)
(* matters); patterns handed to validate_index_pattern are sequences of    *)
(* one-character strings because the validator inspects characters.        *)
(***************************************************************************)
EXTENDS Integers, Sequences, FiniteSets, TLC

VARIABLES
    INDEX_REGISTRY,   \* config/indices.py:10  the module-level registry
    environ,          \* os.environ, restricted to the ELASTIC_*_PATTERN names
    reg_ret,          \* outcome of the last registry call
    v_pattern,        \* validate_index_pattern: the argument
    v_ret,            \* validate_index_pattern: "pending", "ok" or "ValueError"
    es_calls,         \* transport invocations made by the last primitive call
    ret,              \* outcome of the last primitive call
    scroll_ctx,       \* per continuation handle: its consumption state
    clear_attempted,  \* handles for which es.clear_scroll was invoked
    flow,             \* outcome of the last fetch_user_logs call
    fd_data,          \* ElasticResponse.from_dict: the backend's response
    fd_ret,           \* ElasticResponse.from_dict: the object built from it
    tool,             \* outcome of the last wrapper or flow tool call
    bs_call,          \* the Bugsnag primitive being executed and its context
    bs_pc,            \* Bugsnag primitive: position of the calling thread
    bs_task,          \* Bugsnag primitive: the coroutine run by asyncio.run
    bs_worker,        \* Bugsnag primitive: the executor's worker thread
    bs_ret            \* Bugsnag primitive: pending exception, returned value

vars == <<INDEX_REGISTRY, environ, reg_ret, v_pattern, v_ret,
          es_calls, ret, scroll_ctx, clear_attempted, flow,
          fd_data, fd_ret, tool, bs_call, bs_pc, bs_task, bs_worker, bs_ret>>

regVars  == <<INDEX_REGISTRY, environ, reg_ret>>
valVars  == <<v_pattern, v_ret>>
primVars == <<es_calls, ret, scroll_ctx, clear_attempted>>
flowVars == <<flow>>
typeVars == <<fd_data, fd_ret>>
toolVars == <<tool>>
bugVars  == <<bs_call, bs_pc, bs_task, bs_worker, bs_ret>>

None == "None"

\* None where the value is otherwise a dict or an object
NoValue == <<>>

(***************************************************************************)
(* config/indices.py : INDEX_REGISTRY                                      *)
(***************************************************************************)
ProdAppFields ==
    [timestamp |-> "@timestamp", level |-> "json.levelname",
     message |-> "json.message", pod |-> "json.hostname",
     service |-> "json.service_name", module |-> "json.module",
     trace_id |-> "json.trace_id", request_id |-> "json.request_id",
     user_id |-> "json.user_id", environment |-> "json.environment",
     deployment |-> "ct_deployment", namespace |-> "ct_feature",
     application |-> "applicationName"]

ProdLevelMap ==
    [ERROR    |-> <<"error", "ERROR", "E", "err", "ERR">>,
     WARNING  |-> <<"warn", "WARNING", "W", "warning", "WARN">>,
     INFO     |-> <<"info", "INFO", "I">>,
     DEBUG    |-> <<"debug", "DEBUG", "D">>,
     CRITICAL |-> <<"critical", "CRITICAL", "C", "crit", "CRIT", "fatal", "FATAL">>]

DevLevelMap ==
    [ERROR   |-> <<"error", "ERROR">>,
     WARNING |-> <<"warn", "WARNING">>,
     INFO    |-> <<"info", "INFO">>,
     DEBUG   |-> <<"debug", "DEBUG">>]

InitialRegistry ==
    [production |->
       [app_logs |->
          [pattern |-> "app-logs-prod-*", rollover |-> "daily", retention |-> "30d",
           fields |-> ProdAppFields,
           mappings |-> [level |-> ProdLevelMap],
           default_size |-> 100, max_size |-> 1000, timeout_ms |-> 30000],
        infra_logs |->
          [pattern |-> "infrastructure-prod-*", rollover |-> "daily", retention |-> "14d",
           fields |-> [timestamp |-> "@timestamp", level |-> "level",
                       message |-> "message", host |-> "host.name",
                       component |-> "component",
                       resource_type |-> "kubernetes.resource.type",
                       resource_name |-> "kubernetes.resource.name",
                       cpu_usage |-> "system.cpu.usage",
                       memory_usage |-> "system.memory.usage",
                       disk_usage |-> "system.disk.usage",
                       network_in |-> "system.network.in.bytes",
                       network_out |-> "system.network.out.bytes"],
           default_size |-> 100, max_size |-> 500, timeout_ms |-> 30000],
        security_logs |->
          [pattern |-> "security-prod-*", rollover |-> "daily", retention |-> "90d",
           fields |-> [timestamp |-> "@timestamp", event_type |-> "event.type",
                       action |-> "event.action", outcome |-> "event.outcome",
                       user |-> "user.name", source_ip |-> "source.ip",
                       target_resource |-> "resource.name",
                       risk_score |-> "risk.score"],
           default_size |-> 100, max_size |-> 500, timeout_ms |-> 30000],
        audit_logs |->
          [pattern |-> "audit-prod-*", rollover |-> "monthly", retention |-> "365d",
           fields |-> [timestamp |-> "@timestamp", action |-> "event.action",
                       resource_type |-> "resource.type",
                       resource_id |-> "resource.id", user |-> "user.name",
                       source_ip |-> "source.ip", changes |-> "event.changes",
                       reason |-> "event.reason",
                       compliance_tags |-> "tags.compliance"],
           default_size |-> 100, max_size |-> 500, timeout_ms |-> 30000]],
     staging |->
       [app_logs |->
          [pattern |-> "app-logs-staging-*", rollover |-> "daily", retention |-> "14d",
           fields |-> ProdAppFields,
           mappings |-> [level |-> ProdLevelMap],
           default_size |-> 100, max_size |-> 1000, timeout_ms |-> 30000]],
     development |->
       [app_logs |->
          [pattern |-> "app-logs-dev-*", rollover |-> "weekly", retention |-> "7d",
           fields |-> [timestamp |-> "@timestamp", level |-> "level",
                       message |-> "message", pod |-> "hostname",
                       service |-> "service"],
           mappings |-> [level |-> DevLevelMap],
           default_size |-> 50, max_size |-> 200, timeout_ms |-> 10000]]]

(***************************************************************************)
(* config/environments.py                                                  *)
(***************************************************************************)
get_current_environment == "default"

(***************************************************************************)
(* Inputs of the registry calls.                                           *)
(***************************************************************************)
Environments == {"production", "staging", "development", get_current_environment}
IndexTypes   == {"app_logs", "infra_logs", "security_logs", "audit_logs", "metrics"}
LogicalFields == {"timestamp", "level", "pod", "host", "user_id", "nonexistent"}
Levels       == {"ERROR", "WARNING", "CRITICAL", "TRACE", "error"}
OverridePatterns == {None, "", "override-*"}
EnvValues    == {None, "", "env-*"}

\* str.upper() on the index types the callers pass
Upper(s) ==
    CASE s = "app_logs"      -> "APP_LOGS"
      [] s = "infra_logs"    -> "INFRA_LOGS"
      [] s = "security_logs" -> "SECURITY_LOGS"
      [] s = "audit_logs"    -> "AUDIT_LOGS"
      [] s = "metrics"       -> "METRICS"

\* f"ELASTIC_{index_type.upper()}_PATTERN"
EnvVarName(index_type) ==
    CASE Upper(index_type) = "APP_LOGS"      -> "ELASTIC_APP_LOGS_PATTERN"
      [] Upper(index_type) = "INFRA_LOGS"    -> "ELASTIC_INFRA_LOGS_PATTERN"
      [] Upper(index_type) = "SECURITY_LOGS" -> "ELASTIC_SECURITY_LOGS_PATTERN"
      [] Upper(index_type) = "AUDIT_LOGS"    -> "ELASTIC_AUDIT_LOGS_PATTERN"
      [] Upper(index_type) = "METRICS"       -> "ELASTIC_METRICS_PATTERN"

\* the variables the model lets the process environment define
EnvVarNames == {"ELASTIC_APP_LOGS_PATTERN", "ELASTIC_INFRA_LOGS_PATTERN"}

\* os.getenv(name): None when the variable is unset
getenv(env, name) == IF name \in DOMAIN env THEN env[name] ELSE None

\* Python truthiness of an Optional[str]
Truthy(s) == s # None /\ s # ""

\* the writes of indices.py:201 and :206 go through `config`, which line 197
\* made a (shallow) copy of the registry's entry: the registry keeps its value
WritePatternAliased(store, environment, index_type, pattern) ==
    [store EXCEPT ![environment][index_type].pattern = pattern]

WritePattern(store, environment, index_type, pattern) == store

\* get_index_config: [raised, value, registry] where registry is the content
\* of INDEX_REGISTRY after the call
get_index_config(store, env, environment, index_type, override_pattern) ==
    IF environment \notin DOMAIN store \/ DOMAIN store[environment] = {}
    THEN [raised |-> "KeyError", value |-> NoValue, registry |-> store]
    ELSE IF index_type \notin DOMAIN store[environment]
              \/ DOMAIN store[environment][index_type] = {}
    THEN [raised |-> "KeyError", value |-> NoValue, registry |-> store]
    ELSE
      LET index_config == store[environment][index_type]
          config1 == IF Truthy(override_pattern)
                     THEN [index_config EXCEPT !.pattern = override_pattern]
                     ELSE index_config
          store1  == IF Truthy(override_pattern)
                     THEN WritePattern(store, environment, index_type, override_pattern)
                     ELSE store
          env_pattern == getenv(env, EnvVarName(index_type))
          config2 == IF Truthy(env_pattern)
                     THEN [config1 EXCEPT !.pattern = env_pattern]
                     ELSE config1
          store2  == IF Truthy(env_pattern)
                     THEN WritePattern(store1, environment, index_type, env_pattern)
                     ELSE store1
      IN [raised |-> None, value |-> config2, registry |-> store2]

\* a lookup without the except clause: the KeyError of get_index_config
\* reaches the caller
get_field_mapping_unguarded(store, env, environment, index_type, field_name) ==
    LET r == get_index_config(store, env, environment, index_type, None)
    IN IF r.raised = "KeyError"
       THEN [raised |-> "KeyError", value |-> NoValue, registry |-> r.registry]
       ELSE LET fields == IF "fields" \in DOMAIN r.value THEN r.value.fields ELSE <<>>
            IN [raised |-> None,
                value |-> IF field_name \in DOMAIN fields THEN fields[field_name] ELSE None,
                registry |-> r.registry]

get_field_mapping(store, env, environment, index_type, field_name) ==
    LET r == get_index_config(store, env, environment, index_type, None)
    IN IF r.raised = "KeyError"
       THEN [raised |-> None, value |-> None, registry |-> r.registry]
       ELSE LET fields == IF "fields" \in DOMAIN r.value THEN r.value.fields ELSE <<>>
            IN [raised |-> None,
                value |-> IF field_name \in DOMAIN fields THEN fields[field_name] ELSE None,
                registry |-> r.registry]

\* a lookup whose default for an unmapped level is the empty list
get_level_mapping_empty_default(store, env, environment, index_type, level) ==
    LET r == get_index_config(store, env, environment, index_type, None)
    IN IF r.raised = "KeyError"
       THEN [raised |-> None, value |-> <<level>>, registry |-> r.registry]
       ELSE LET m1 == IF "mappings" \in DOMAIN r.value THEN r.value.mappings ELSE <<>>
                mappings == IF "level" \in DOMAIN m1 THEN m1.level ELSE <<>>
            IN [raised |-> None,
                value |-> IF level \in DOMAIN mappings THEN mappings[level] ELSE <<>>,
                registry |-> r.registry]

get_level_mapping(store, env, environment, index_type, level) ==
    LET r == get_index_config(store, env, environment, index_type, None)
    IN IF r.raised = "KeyError"
       THEN [raised |-> None, value |-> <<level>>, registry |-> r.registry]
       ELSE LET m1 == IF "mappings" \in DOMAIN r.value THEN r.value.mappings ELSE <<>>
                mappings == IF "level" \in DOMAIN m1 THEN m1.level ELSE <<>>
            IN [raised |-> None,
                value |-> IF level \in DOMAIN mappings THEN mappings[level] ELSE <<level>>,
                registry |-> r.registry]

(***************************************************************************)
(* Registry specification: any sequence of lookups, the process            *)
(* environment changing between them.                                      *)
(***************************************************************************)
IdleVal  == v_pattern = <<>> /\ v_ret = "idle"
IdlePrim == /\ es_calls = <<>>
            /\ ret = [op |-> "none"]
            /\ scroll_ctx = <<>>
            /\ clear_attempted = {}
IdleFlow == flow = [op |-> "none"]
IdleTypes == fd_data = <<>> /\ fd_ret = <<>>
IdleTools == tool = [op |-> "none"]
IdleBugsnag == /\ bs_call = [op |-> "none"]
               /\ bs_pc = "idle"
               /\ bs_task = [state |-> "none", outcome |-> None]
               /\ bs_worker = "none"
               /\ bs_ret = [exc |-> None, timed_out |-> FALSE, value |-> NoValue]

InitRegistry ==
    /\ INDEX_REGISTRY = InitialRegistry
    /\ environ \in [EnvVarNames -> EnvValues]
    /\ reg_ret = [op |-> "none"]
    /\ IdleVal /\ IdlePrim /\ IdleFlow
    /\ IdleTypes /\ IdleTools /\ IdleBugsnag

CallGetIndexConfig ==
    \E environment \in Environments, index_type \in IndexTypes,
       override_pattern \in OverridePatterns :
       LET r == get_index_config(INDEX_REGISTRY, environ, environment,
                                 index_type, override_pattern)
       IN /\ reg_ret' = [op |-> "get_index_config", environment |-> environment,
                         index_type |-> index_type, override |-> override_pattern,
                         env_pattern |-> getenv(environ, EnvVarName(index_type)),
                         raised |-> r.raised, value |-> r.value]
          /\ INDEX_REGISTRY' = r.registry
          /\ UNCHANGED <<environ, valVars, primVars, flowVars, typeVars, toolVars, bugVars>>

CallGetFieldMapping ==
    \E environment \in Environments, index_type \in IndexTypes,
       field_name \in LogicalFields :
       LET r == get_field_mapping(INDEX_REGISTRY, environ, environment,
                                  index_type, field_name)
       IN /\ reg_ret' = [op |-> "get_field_mapping", environment |-> environment,
                         index_type |-> index_type, field_name |-> field_name,
                         raised |-> r.raised, value |-> r.value]
          /\ INDEX_REGISTRY' = r.registry
          /\ UNCHANGED <<environ, valVars, primVars, flowVars, typeVars, toolVars, bugVars>>

CallGetLevelMapping ==
    \E environment \in Environments, index_type \in IndexTypes, level \in Levels :
       LET r == get_level_mapping(INDEX_REGISTRY, environ, environment,
                                  index_type, level)
       IN /\ reg_ret' = [op |-> "get_level_mapping", environment |-> environment,
                         index_type |-> index_type, level |-> level,
                         raised |-> r.raised, value |-> r.value]
          /\ INDEX_REGISTRY' = r.registry
          /\ UNCHANGED <<environ, valVars, primVars, flowVars, typeVars, toolVars, bugVars>>

\* the process environment is outside the program: a variable is set or unset
SetEnviron ==
    \E name \in EnvVarNames, val \in EnvValues :
       /\ environ[name] # val
       /\ environ' = [environ EXCEPT ![name] = val]
       /\ UNCHANGED <<INDEX_REGISTRY, reg_ret, valVars, primVars, flowVars, typeVars, toolVars, bugVars>>

NextRegistry ==
    \/ CallGetIndexConfig
    \/ CallGetFieldMapping
    \/ CallGetLevelMapping
    \/ SetEnviron

SpecRegistry == InitRegistry /\ [][NextRegistry]_vars

(***************************************************************************)
(* utils/validation.py                                                     *)
(***************************************************************************)
LowerAZ == {"a","b","c","d","e","f","g","h","i","j","k","l","m",
            "n","o","p","q","r","s","t","u","v","w","x","y","z"}
UpperAZ == {"A","B","C","D","E","F","G","H","I","J","K","L","M",
            "N","O","P","Q","R","S","T","U","V","W","X","Y","Z"}
Digits09 == {"0","1","2","3","4","5","6","7","8","9"}

\* the characters the negated class [^a-zA-Z0-9\-_.*] does not match
RegexClass == LowerAZ \cup UpperAZ \cup Digits09 \cup {"-", "_", ".", "*"}

\* re.findall(r'[^a-zA-Z0-9\-_.*]', pattern)
FindInvalid(pattern) == SelectSeq(pattern, LAMBDA c : c \notin RegexClass)

\* validate_index_pattern: None, or the ValueError's message
validate_index_pattern_lax(pattern) ==
    IF Len(pattern) = 0
    THEN <<"Index pattern cannot be empty">>
    ELSE IF FindInvalid(pattern) # <<>>
    THEN <<"Invalid characters in index pattern: ">> \o FindInvalid(pattern)
    ELSE <<>>

validate_index_pattern(pattern) ==
    IF Len(pattern) = 0
    THEN <<"Index pattern cannot be empty">>
    ELSE IF pattern[1] = "_"
    THEN <<"Index pattern cannot start with underscore">>
    ELSE IF FindInvalid(pattern) # <<>>
    THEN <<"Invalid characters in index pattern: ">> \o FindInvalid(pattern)
    ELSE <<>>

Max2(a, b) == IF a >= b THEN a ELSE b

\* a minimum that never caps its first argument
MinUncapped(a, b) == a

Min2(a, b) == IF a <= b THEN a ELSE b

clamp_value_no_floor(value, min_value, max_value) == Min2(value, max_value)

clamp_value_no_ceiling(value, min_value, max_value) == Max2(min_value, value)

\* clamp_value: max(min_value, min(value, max_value))
clamp_value(value, min_value, max_value) == Max2(min_value, Min2(value, max_value))

(***************************************************************************)
(* Validation specification: one call on each pattern over the alphabet.   *)
(***************************************************************************)
MaxPatternLen == 3
Alphabet == {"a", "Z", "0", "-", "_", ".", "*", " ", "/", "é"}

RECURSIVE SeqsUpTo(_, _)
SeqsUpTo(S, n) ==
    IF n = 0 THEN {<<>>}
    ELSE LET shorter == SeqsUpTo(S, n - 1)
         IN shorter \cup {Append(q, c) : q \in {x \in shorter : Len(x) = n - 1}, c \in S}

InitValidate ==
    /\ v_pattern \in SeqsUpTo(Alphabet, MaxPatternLen)
    /\ v_ret = "pending"
    /\ INDEX_REGISTRY = InitialRegistry
    /\ environ = [n \in EnvVarNames |-> None]
    /\ reg_ret = [op |-> "none"]
    /\ IdlePrim /\ IdleFlow
    /\ IdleTypes /\ IdleTools /\ IdleBugsnag

CallValidate ==
    /\ v_ret = "pending"
    /\ v_ret' = IF validate_index_pattern(v_pattern) = <<>> THEN "ok" ELSE "ValueError"
    /\ UNCHANGED <<v_pattern, regVars, primVars, flowVars, typeVars, toolVars, bugVars>>

NextValidate == CallValidate

SpecValidate == InitValidate /\ [][NextValidate]_vars

(***************************************************************************)
(* mcp_types/primitives.py                                                 *)
(***************************************************************************)
\* a dict of the entries whose condition holds
Opt(cond, key, val) == IF cond THEN key :> val ELSE <<>>

\* ElasticQuery.to_dict: optional keys are emitted only when set
ElasticQuery_to_dict(q) ==
    [query |-> q.query, size |-> q.size, from |-> q.from_]
      @@ Opt(q.sort # <<>>, "sort", q.sort)
      @@ Opt(q.fields # <<>>, "fields", q.fields)
      @@ Opt(q.source # TRUE, "_source", q.source)
      @@ Opt(q.highlight # <<>>, "highlight", q.highlight)
      @@ Opt(q.track_total_hits # TRUE, "track_total_hits", q.track_total_hits)

\* AggregationQuery.to_dict
AggregationQuery_to_dict(q) ==
    [query |-> q.query, aggs |-> q.aggregations, size |-> q.size]

\* a reading of hits.total that trusts only an exact count: a structured
\* total whose relation is not "eq" counts as 0
TotalOfExactOnly(hits_data) ==
    IF "total" \notin DOMAIN hits_data THEN 0
    ELSE IF "dict" \in DOMAIN hits_data.total
    THEN IF /\ "value" \in DOMAIN hits_data.total.dict
            /\ "relation" \in DOMAIN hits_data.total.dict
            /\ hits_data.total.dict.relation = "eq"
         THEN hits_data.total.dict.value ELSE 0
    ELSE hits_data.total.int

\* hits.total as the backend reports it: a bare integer [int |-> n], or a
\* dict [dict |-> d] with d the dict's content
TotalOf(hits_data) ==
    IF "total" \notin DOMAIN hits_data THEN 0
    ELSE IF "dict" \in DOMAIN hits_data.total
    THEN IF "value" \in DOMAIN hits_data.total.dict
         THEN hits_data.total.dict.value ELSE 0
    ELSE hits_data.total.int

\* ElasticResponse.from_dict
ElasticResponse_from_dict(data) ==
    LET hits_data == IF "hits" \in DOMAIN data THEN data.hits ELSE <<>>
    IN [took |-> IF "took" \in DOMAIN data THEN data.took ELSE 0,
        timed_out |-> IF "timed_out" \in DOMAIN data THEN data.timed_out ELSE FALSE,
        total |-> TotalOf(hits_data),
        hits |-> IF "hits" \in DOMAIN hits_data THEN hits_data.hits ELSE <<>>,
        aggregations |-> IF "aggregations" \in DOMAIN data
                         THEN data.aggregations ELSE NoValue,
        scroll_id |-> IF "_scroll_id" \in DOMAIN data THEN data._scroll_id ELSE None]

\* AggregationResponse.from_dict
AggregationResponse_from_dict(data) ==
    [took |-> IF "took" \in DOMAIN data THEN data.took ELSE 0,
     timed_out |-> IF "timed_out" \in DOMAIN data THEN data.timed_out ELSE FALSE,
     aggregations |-> IF "aggregations" \in DOMAIN data
                      THEN data.aggregations ELSE <<>>]

(***************************************************************************)
(* tools/primitives/search.py, aggregate.py, query.py                      *)
(*                                                                         *)
(* The transport's reaction to an invocation is an argument `backend`:     *)
(* [raises |-> TRUE, cause |-> msg] or [raises |-> FALSE, response |-> r]. *)
(* A primitive yields [raised, message, value, calls]: the exception type  *)
(* (None when it returns), the exception's message as the sequence of the  *)
(* parts the f-string concatenates, the returned value and the transport   *)
(* invocations it made, in order.                                          *)
(***************************************************************************)
MAX_SEARCH_SIZE == 10000

Returned(value, calls) ==
    [raised |-> None, message |-> <<>>, value |-> value, calls |-> calls]
Raised(type, message, calls) ==
    [raised |-> type, message |-> message, value |-> NoValue, calls |-> calls]

WrapDroppingCause(prefix, cause, calls) == Raised("Exception", <<prefix>>, calls)

\* the `except Exception as e: raise Exception(f"<prefix>{str(e)}") from e`
Wrap(prefix, cause, calls) == Raised("Exception", <<prefix>> \o cause, calls)

\* es.search(...) / es.scroll(...) inside the try block of a primitive: the
\* raw response, or the wrapped exception
Invoke(call, backend, prefix) ==
    IF backend.raises
    THEN Wrap(prefix, <<backend.cause>>, <<call>>)
    ELSE Returned(backend.response, <<call>>)

\* `return ElasticResponse.from_dict(response)`
AsElasticResponse(r) ==
    IF r.raised # None THEN r
    ELSE [r EXCEPT !.value = ElasticResponse_from_dict(r.value)]

\* `return AggregationResponse.from_dict(response)`
AsAggregationResponse(r) ==
    IF r.raised # None THEN r
    ELSE [r EXCEPT !.value = AggregationResponse_from_dict(r.value)]

search_elastic_logs(index_pattern, query, size, from_, sort, scroll, backend) ==
    LET invalid == validate_index_pattern(index_pattern)
        elastic_query ==
            [index_pattern |-> index_pattern, query |-> query,
             size |-> clamp_value(size, 1, MAX_SEARCH_SIZE),
             from_ |-> Max2(0, from_),
             sort |-> sort, fields |-> <<>>, source |-> TRUE,
             highlight |-> <<>>, track_total_hits |-> TRUE]
        body == ElasticQuery_to_dict(elastic_query)
        call == [method |-> "search", index |-> index_pattern, body |-> body]
                  @@ Opt(Truthy(scroll), "scroll", scroll)
    IN IF invalid # <<>>
       THEN Raised("ValueError", invalid, <<>>)
       ELSE AsElasticResponse(Invoke(call, backend, "Elasticsearch query failed: "))

scroll_elastic_logs(scroll_id, scroll, backend) ==
    AsElasticResponse(
        Invoke([method |-> "scroll", scroll_id |-> scroll_id, scroll |-> scroll],
               backend, "Elasticsearch scroll failed: "))

\* get_elasticsearch_client() could not build a client: Elasticsearch(**params)
\* rejects the configured URL or CA file
ClientFailure ==
    {[raises |-> TRUE, client |-> FALSE,
      cause |-> "URL must include a 'scheme', 'host', and 'port' component"]}

\* clear_scroll: the client is obtained before the try statement, the
\* failure of es.clear_scroll inside it is swallowed
clear_scroll(scroll_id, backend) ==
    IF "client" \in DOMAIN backend
    THEN Raised("ValueError", <<backend.cause>>, <<>>)
    ELSE Returned(NoValue, <<[method |-> "clear_scroll", scroll_id |-> scroll_id]>>)

aggregate_elastic_data(index_pattern, query, aggregations, size, backend) ==
    LET invalid == validate_index_pattern(index_pattern)
        agg_query == [index_pattern |-> index_pattern, query |-> query,
                      aggregations |-> aggregations, size |-> size]
        call == [method |-> "search", index |-> index_pattern,
                 body |-> AggregationQuery_to_dict(agg_query)]
    IN IF invalid # <<>>
       THEN Raised("ValueError", invalid, <<>>)
       ELSE AsAggregationResponse(
                Invoke(call, backend, "Elasticsearch aggregation failed: "))

\* a JSON number of a response: its integral part and its first decimal
Number(whole, tenths) == [whole |-> whole, tenths |-> tenths]

\* int(x) of a non-negative number: truncation
int(x) == x.whole

\* the variant of get_field_cardinality that subscripts the response,
\* `int(response.aggregations["unique_count"]["value"])`
get_field_cardinality_subscript(index_pattern, field, query, precision_threshold, backend) ==
    LET response == aggregate_elastic_data(index_pattern,
                        IF query = <<>> THEN [match_all |-> <<>>] ELSE query[1],
                        [unique_count |-> [cardinality |->
                            [field |-> field,
                             precision_threshold |-> precision_threshold]]],
                        0, backend)
    IN IF response.raised # None THEN response
       ELSE IF "unique_count" \notin DOMAIN response.value.aggregations
       THEN Raised("KeyError", <<"unique_count">>, response.calls)
       ELSE IF "value" \notin DOMAIN response.value.aggregations.unique_count
       THEN Raised("KeyError", <<"value">>, response.calls)
       ELSE Returned(int(response.value.aggregations.unique_count.value), response.calls)

\* get_field_cardinality; the Optional query is <<>> or <<query>>:
\* `int(response.aggregations.get("unique_count", {}).get("value", 0))`
get_field_cardinality(index_pattern, field, query, precision_threshold, backend) ==
    LET response == aggregate_elastic_data(index_pattern,
                        IF query = <<>> THEN [match_all |-> <<>>] ELSE query[1],
                        [unique_count |-> [cardinality |->
                            [field |-> field,
                             precision_threshold |-> precision_threshold]]],
                        0, backend)
        unique_count == IF "unique_count" \in DOMAIN response.value.aggregations
                        THEN response.value.aggregations.unique_count
                        ELSE <<>>
        value == IF "value" \in DOMAIN unique_count
                 THEN int(unique_count.value) ELSE 0
    IN IF response.raised # None THEN response
       ELSE Returned(value, response.calls)

\* an absent Optional[str] pattern, distinct from every sequence of characters
NonePattern == <<None>>

\* query_elastic_raw: `index` is None or a pattern; `if index:` is false for
\* None and for the empty pattern; validation happens inside the try block
query_elastic_raw(body, index, backend) ==
    IF index # NonePattern /\ index # <<>>
    THEN IF validate_index_pattern(index) # <<>>
         THEN Wrap("Raw query failed: ", validate_index_pattern(index), <<>>)
         ELSE Invoke([method |-> "search", index |-> index, body |-> body],
                     backend, "Raw query failed: ")
    ELSE Invoke([method |-> "search", body |-> body],
                backend, "Raw query failed: ")

(***************************************************************************)
(* Primitive specification: a caller invoking the primitives in any order  *)
(* against a backend that answers or raises.                               *)
(***************************************************************************)
MaxHandles == 1
MaxPages   == 1

HandleNames == <<"scroll-1", "scroll-2", "scroll-3">>
Handles     == {HandleNames[i] : i \in 1..MaxHandles}
ScrollIds   == Handles \cup {"invalid_scroll_id"}

LogsPattern == <<"l", "o", "g", "s", "-", "*">>
PrimPatterns == {<<>>, LogsPattern, <<"_", "a">>, <<"a", " ">>}
Sizes  == {-1, 0, 1, 500, MAX_SEARCH_SIZE, MAX_SEARCH_SIZE + 1}
DefaultSize == 100

\* the argument tuples of search_elastic_logs: every size on a valid pattern,
\* a negative and a positive offset, and every pattern at the default size
SearchInputs ==
    {[index_pattern |-> LogsPattern, size |-> s, from_ |-> 0] : s \in Sizes}
      \cup {[index_pattern |-> LogsPattern, size |-> DefaultSize, from_ |-> f] : f \in {-1, 2}}
      \cup {[index_pattern |-> p, size |-> DefaultSize, from_ |-> 0] : p \in PrimPatterns}
Causes == {"Connection failed", "Scroll context expired"}

SampleQuery == [match_all |-> <<>>]

HitError ==
    [_index |-> "app-logs-2024-01",
     _source |-> ("@timestamp" :> "2024-01-15T10:30:00Z" @@
                  "json" :> [levelname |-> "ERROR", message |-> "boom",
                             hostname |-> "pod-1", service_name |-> "svc",
                             user_id |-> "41343"])]

\* a search response of the backend
SearchResponse(hits, scroll_id) ==
    [took |-> 5, timed_out |-> FALSE,
     hits |-> [total |-> [dict |-> [value |-> Len(hits), relation |-> "eq"]],
               hits |-> hits]]
      @@ Opt(scroll_id # None, "_scroll_id", scroll_id)

Raises(cause) == [raises |-> TRUE, cause |-> cause]
Answers(response) == [raises |-> FALSE, response |-> response]

BackendFailures == {Raises(c) : c \in Causes}
ConnectionFailure == {Raises("Connection failed")}

\* the cause the primitive saw: the backend was invoked and raised
CauseSeen(r, backend) ==
    IF r.calls # <<>> /\ backend.raises THEN backend.cause ELSE None

InitPrim ==
    /\ es_calls = <<>>
    /\ ret = [op |-> "none"]
    /\ scroll_ctx = [h \in Handles |-> [state |-> "free", remaining |-> 0]]
    /\ clear_attempted = {}
    /\ INDEX_REGISTRY = InitialRegistry
    /\ environ = [n \in EnvVarNames |-> None]
    /\ reg_ret = [op |-> "none"]
    /\ IdleVal /\ IdleFlow
    /\ IdleTypes /\ IdleTools /\ IdleBugsnag

\* the handles the backend has not handed out yet
FreeHandles == {h \in Handles : scroll_ctx[h].state = "free"}

\* the backends a search runs against: every argument tuple against one
\* that answers with a hit, the default tuple also against one that answers
\* with no hit and one that fails
SearchBackends(in) ==
    {Answers(SearchResponse(<<HitError>>, None))}
      \cup (IF in = [index_pattern |-> LogsPattern, size |-> DefaultSize, from_ |-> 0]
            THEN ConnectionFailure \cup {Answers(SearchResponse(<<>>, None))}
            ELSE {})

CallSearch ==
    \E in \in SearchInputs :
       \E backend \in SearchBackends(in) :
          LET r == search_elastic_logs(in.index_pattern, SampleQuery, in.size,
                                       in.from_, <<>>, None, backend)
          IN /\ ret' = [op |-> "search_elastic_logs",
                        index_pattern |-> in.index_pattern,
                        size |-> in.size, from_ |-> in.from_, scroll |-> None,
                        cause |-> CauseSeen(r, backend),
                        raised |-> r.raised, message |-> r.message, value |-> r.value]
             /\ es_calls' = r.calls
             /\ UNCHANGED <<scroll_ctx, clear_attempted, regVars, valVars, flowVars, typeVars, toolVars, bugVars>>

\* search with scroll="1m": the backend opens a context and returns its handle
CallSearchScroll ==
    \E index_pattern \in {<<>>, LogsPattern}, size \in {DefaultSize}, h \in FreeHandles,
       pages \in 0..MaxPages :
       \E backend \in ConnectionFailure
                        \cup {Answers(SearchResponse(<<HitError>>, h))} :
          LET r == search_elastic_logs(index_pattern, SampleQuery, size, 0,
                                       <<>>, "1m", backend)
          IN /\ ret' = [op |-> "search_elastic_logs", index_pattern |-> index_pattern,
                        size |-> size, from_ |-> 0, scroll |-> "1m",
                        cause |-> CauseSeen(r, backend),
                        raised |-> r.raised, message |-> r.message, value |-> r.value]
             /\ es_calls' = r.calls
             /\ scroll_ctx' = IF r.raised = None
                              THEN [scroll_ctx EXCEPT ![h] =
                                      [state |-> "open", remaining |-> pages]]
                              ELSE scroll_ctx
             /\ UNCHANGED <<clear_attempted, regVars, valVars, flowVars, typeVars, toolVars, bugVars>>

\* the backend's answers to es.scroll for a handle
ScrollReactions(scroll_id) ==
    IF scroll_id \in Handles /\ scroll_ctx[scroll_id].state \in {"open", "exhausted", "failed"}
    THEN BackendFailures \cup
         {Answers(SearchResponse(IF scroll_ctx[scroll_id].remaining > 0
                                 THEN <<HitError>> ELSE <<>>, scroll_id))}
    ELSE {Raises("Scroll context expired")}

CallScroll ==
    \E scroll_id \in ScrollIds :
       \E backend \in ScrollReactions(scroll_id) :
          LET r == scroll_elastic_logs(scroll_id, "1m", backend)
              live == scroll_id \in Handles
                        /\ scroll_ctx[scroll_id].state \in {"open", "exhausted", "failed"}
          IN /\ ret' = [op |-> "scroll_elastic_logs", scroll_id |-> scroll_id,
                        cause |-> CauseSeen(r, backend),
                        raised |-> r.raised, message |-> r.message, value |-> r.value]
             /\ es_calls' = r.calls
             /\ scroll_ctx' =
                  IF ~live THEN scroll_ctx
                  ELSE IF r.raised # None
                  THEN [scroll_ctx EXCEPT ![scroll_id].state = "failed"]
                  ELSE IF scroll_ctx[scroll_id].remaining > 0
                  THEN [scroll_ctx EXCEPT ![scroll_id] =
                          [state |-> "open", remaining |-> @.remaining - 1]]
                  ELSE [scroll_ctx EXCEPT ![scroll_id].state = "exhausted"]
             /\ UNCHANGED <<clear_attempted, regVars, valVars, flowVars, typeVars, toolVars, bugVars>>

CallClearScroll ==
    \E scroll_id \in ScrollIds :
       \E backend \in ConnectionFailure \cup ClientFailure \cup {Answers(<<>>)} :
          LET r == clear_scroll(scroll_id, backend)
              live == scroll_id \in Handles
                        /\ scroll_ctx[scroll_id].state \in {"open", "exhausted", "failed"}
          IN /\ ret' = [op |-> "clear_scroll", scroll_id |-> scroll_id,
                        cause |-> CauseSeen(r, backend),
                        raised |-> r.raised, message |-> r.message, value |-> r.value]
             /\ es_calls' = r.calls
             /\ clear_attempted' = clear_attempted \cup
                  {c.scroll_id : c \in {r.calls[i] : i \in DOMAIN r.calls}}
             /\ scroll_ctx' = IF live /\ ~backend.raises
                              THEN [scroll_ctx EXCEPT ![scroll_id].state = "released"]
                              ELSE scroll_ctx
             /\ UNCHANGED <<regVars, valVars, flowVars, typeVars, toolVars, bugVars>>

AggResponses ==
    {[took |-> 3, timed_out |-> FALSE],
     [took |-> 3, timed_out |-> FALSE,
      aggregations |-> [unique_count |-> [value |-> 7]]]}

CallAggregate ==
    \E index_pattern \in PrimPatterns :
       \E backend \in ConnectionFailure \cup {Answers(a) : a \in AggResponses} :
          LET r == aggregate_elastic_data(index_pattern, SampleQuery,
                      [unique_count |-> [cardinality |-> [field |-> "json.user_id"]]],
                      0, backend)
          IN /\ ret' = [op |-> "aggregate_elastic_data", index_pattern |-> index_pattern,
                        cause |-> CauseSeen(r, backend),
                        raised |-> r.raised, message |-> r.message, value |-> r.value]
             /\ es_calls' = r.calls
             /\ UNCHANGED <<scroll_ctx, clear_attempted, regVars, valVars, flowVars, typeVars, toolVars, bugVars>>

DEFAULT_PRECISION_THRESHOLD == 3000

\* what the backend answers to a cardinality aggregation: no aggregations,
\* an empty aggregations object, another aggregation only, a unique_count
\* without a value, and unique_count values
CardinalityResponses ==
    {[took |-> 1],
     [took |-> 1, aggregations |-> <<>>],
     [took |-> 1, aggregations |-> [other |-> [value |-> Number(3, 0)]]],
     [took |-> 1, aggregations |-> [unique_count |-> <<>>]],
     [took |-> 1, aggregations |-> [unique_count |-> [value |-> Number(0, 0)]]],
     [took |-> 1, aggregations |-> [unique_count |-> [value |-> Number(7, 0)]]],
     [took |-> 1, aggregations |-> [unique_count |-> [value |-> Number(7, 5)]]]}

CardinalityFields == {"json.hostname.keyword", "json.user_id"}
PrecisionThresholds == {DEFAULT_PRECISION_THRESHOLD, 5000}

CallFieldCardinality ==
    \E index_pattern \in PrimPatterns, field \in CardinalityFields,
       query \in {<<>>, <<SampleQuery>>},
       precision_threshold \in PrecisionThresholds :
       \E backend \in ConnectionFailure \cup {Answers(a) : a \in CardinalityResponses} :
          LET r == get_field_cardinality(index_pattern, field, query,
                        precision_threshold, backend) IN
             /\ ret' = [op |-> "get_field_cardinality", index_pattern |-> index_pattern,
                        field |-> field, query |-> query,
                        precision_threshold |-> precision_threshold,
                        backend |-> backend, cause |-> CauseSeen(r, backend),
                        raised |-> r.raised, message |-> r.message, value |-> r.value]
             /\ es_calls' = r.calls
             /\ UNCHANGED <<scroll_ctx, clear_attempted, regVars, valVars, flowVars, typeVars, toolVars, bugVars>>

NextCardinality == CallFieldCardinality

SpecCardinality == InitPrim /\ [][NextCardinality]_vars

CallQueryRaw ==
    \E index \in PrimPatterns \cup {NonePattern} :
       \E backend \in ConnectionFailure \cup {Answers(SearchResponse(<<>>, None))} :
          LET r == query_elastic_raw([query |-> SampleQuery], index, backend)
          IN /\ ret' = [op |-> "query_elastic_raw", index_pattern |-> index,
                        cause |-> CauseSeen(r, backend),
                        raised |-> r.raised, message |-> r.message, value |-> r.value]
             /\ es_calls' = r.calls
             /\ UNCHANGED <<scroll_ctx, clear_attempted, regVars, valVars, flowVars, typeVars, toolVars, bugVars>>

NextPrim ==
    \/ CallSearch
    \/ CallSearchScroll
    \/ CallScroll
    \/ CallClearScroll
    \/ CallAggregate
    \/ CallQueryRaw

SpecPrim == InitPrim /\ [][NextPrim]_vars

\* a page is fetched for a handle whose scroll is still open
ConsumeOpen ==
    /\ CallScroll
    /\ ret'.scroll_id \in Handles
    /\ scroll_ctx[ret'.scroll_id].state = "open"

\* the consumer of a scroll keeps fetching pages while the scroll is open;
\* nothing in the repository invokes clear_scroll, so no fairness is assumed
\* on it
FairSpecPrim == SpecPrim /\ WF_vars(ConsumeOpen)

(***************************************************************************)
(* server.py : fetch_user_logs                                             *)
(*                                                                         *)
(* Instants are whole minutes.  A datetime is [t, tz] with tz the UTC      *)
(* offset text, "" for a naive datetime.  A float threshold is an integer  *)
(* number of tenths of a second.                                           *)
(***************************************************************************)
MAX_TIMEFRAME_MINUTES == 1440
MAX_USER_LOG_LIMIT    == 1000
MIN_SLOW_THRESHOLD    == 1
HIGH_ERROR_COUNT      == 10
MANY_SLOW_REQUESTS    == 5

Get(d, k, default) == IF k \in DOMAIN d THEN d[k] ELSE default

\* datetime.isoformat(): the instant followed by the offset, if aware
isoformat(dt) == [minutes |-> dt.t, offset |-> dt.tz]

\* datetime.fromisoformat(start_time.replace('Z', '+00:00'))
fromisoformat_Z(start_time) ==
    IF start_time.kind = "iso"
    THEN [ok |-> TRUE, dt |-> [t |-> start_time.t,
                                tz |-> IF start_time.tz = "Z" THEN "+00:00"
                                       ELSE start_time.tz]]
    ELSE [ok |-> FALSE]

\* "app-logs*"
AppLogsPattern == <<"a", "p", "p", "-", "l", "o", "g", "s", "*">>

\* the inner function format_log
format_log(hit) ==
    LET source    == Get(hit, "_source", <<>>)
        json_data == Get(source, "json", <<>>)
        uid       == Get(json_data, "user_id", None)
        formatted ==
            [timestamp |-> Get(source, "@timestamp", None),
             index     |-> Get(hit, "_index", None),
             message   |-> Get(json_data, "message", ""),
             level     |-> Get(json_data, "levelname", ""),
             service   |-> Get(json_data, "service_name", ""),
             hostname  |-> Get(json_data, "hostname", ""),
             user_id   |-> IF Truthy(uid) THEN uid
                           ELSE Get(json_data, "mobile_user_id", None)]
    IN IF "extra" \in DOMAIN json_data /\ "request_time" \in DOMAIN json_data.extra
       THEN formatted @@
            [request_time |-> json_data.extra.request_time,
             method       |-> Get(json_data.extra, "method", ""),
             url          |-> Get(json_data.extra, "url", ""),
             status_code  |-> Get(json_data.extra, "status_code", "")]
       ELSE formatted

FormatAll(hits) == [i \in DOMAIN hits |-> format_log(hits[i])]

\* str(user_id) for the user ids of the model
py_str(n) == CASE n = 41343 -> "41343"
               [] n = 7     -> "7"

\* one `try: x = search_elastic_logs(...).hits  except Exception: x = []`:
\* [raised, hits, failed], raised being what leaves the try statement
TryBranchPropagating(r) ==
    [raised |-> r.raised, failed |-> r.raised # None,
     hits |-> IF r.raised # None THEN <<>> ELSE r.value.hits]

TryBranch(r) ==
    [raised |-> None, failed |-> r.raised # None,
     hits |-> IF r.raised # None THEN <<>> ELSE r.value.hits]

\* insights that stay silent about a user without any log
InsightsSilent(formatted_errors, formatted_slow, formatted_recent) ==
    (IF Len(formatted_recent) = 0
     THEN <<>>
     ELSE << <<"User found - last activity: ", formatted_recent[1].timestamp>> >>)
    \o (IF Len(formatted_errors) = 0 /\ Len(formatted_slow) = 0
        THEN << <<"No errors/slow requests in the specified timeframe">> >>
        ELSE <<>>)

\* the insight strings of server.py:617-630, an f-string as its parts
Insights(formatted_errors, formatted_slow, formatted_recent) ==
    (IF Len(formatted_recent) = 0
     THEN << <<"No logs found for this user - verify user ID or field mapping">> >>
     ELSE << <<"User found - last activity: ", formatted_recent[1].timestamp>> >>
          \o (IF Len(formatted_errors) = 0 /\ Len(formatted_slow) = 0
              THEN << <<"No errors/slow requests in the specified timeframe">> >>
              ELSE <<>>))
    \o (IF Len(formatted_errors) > HIGH_ERROR_COUNT
        THEN << <<"High error count (", Len(formatted_errors),
                  ") - user may be experiencing issues">> >>
        ELSE <<>>)
    \o (IF Len(formatted_slow) > MANY_SLOW_REQUESTS
        THEN << <<"Multiple slow requests (", Len(formatted_slow),
                  ") - performance issues detected">> >>
        ELSE <<>>)

\* an identity filter that matches the numeric mobile id only
UserQueryMobileOnly(user_id) ==
    [bool |-> [should |-> << [term |-> ("json.mobile_user_id" :> user_id)] >>,
               minimum_should_match |-> 1]]

\* the identity filter `user_query` of server.py:482-491
UserQuery(user_id) ==
    [bool |-> [should |-> << [term |-> ("json.mobile_user_id" :> user_id)],
                             [term |-> ("json.user_id.keyword" :> py_str(user_id))] >>,
               minimum_should_match |-> 1]]

\* fetch_user_logs: [raised, value, calls, failed]; `backends` are the
\* transport's reactions to the three searches, `now` is the clock;
\* `failed` is the set of branches whose search raised.  An Optional value
\* of the result (most_recent_log) is <<>> for None and <<v>> for v.
fetch_user_logs(user_id, timeframe_minutes, slow_request_threshold, limit, start_time, now, backends) ==
    LET timeframe == Max2(1, Min2(timeframe_minutes, MAX_TIMEFRAME_MINUTES))
        lim       == Max2(1, Min2(limit, MAX_USER_LOG_LIMIT))
        threshold == Max2(MIN_SLOW_THRESHOLD, slow_request_threshold)
        parsed    == fromisoformat_Z(start_time)
        given     == start_time.kind \notin {"none", "empty"} /\ parsed.ok
        start_time_dt == IF given THEN parsed.dt
                         ELSE [t |-> now - timeframe, tz |-> "+00:00"]
        end_time  == IF given THEN [t |-> parsed.dt.t + timeframe, tz |-> parsed.dt.tz]
                     ELSE [t |-> now, tz |-> "+00:00"]
        user_query == UserQuery(user_id)
        time_filter ==
            [range |-> ("@timestamp" :> [gte |-> isoformat(start_time_dt),
                                         lte |-> isoformat(end_time)])]
        error_query ==
            [bool |-> [must |-> << user_query, time_filter,
                                   [term |-> ("json.levelname.keyword" :> "ERROR")] >>]]
        slow_query ==
            [bool |-> [must |-> << user_query, time_filter,
                                   [range |-> ("json.extra.request_time" :>
                                                 [gt |-> threshold])] >>]]
        recent_query == user_query
        by_timestamp == << ("@timestamp" :> [order |-> "desc"]) >>
        by_request_time == << ("json.extra.request_time" :> [order |-> "desc"]) >>
        r1 == search_elastic_logs(AppLogsPattern, error_query, lim, 0,
                                  by_timestamp, None, backends[1])
        r2 == search_elastic_logs(AppLogsPattern, slow_query, lim, 0,
                                  by_request_time, None, backends[2])
        r3 == search_elastic_logs(AppLogsPattern, recent_query, 1, 0,
                                  by_timestamp, None, backends[3])
        b1 == TryBranch(r1)
        b2 == TryBranch(r2)
        b3 == TryBranch(r3)
        formatted_errors == FormatAll(b1.hits)
        formatted_slow   == FormatAll(b2.hits)
        formatted_recent == FormatAll(b3.hits)
        summary ==
            [user_id |-> user_id,
             timeframe_minutes |-> timeframe,
             search_period |-> [start |-> isoformat(start_time_dt),
                                end |-> isoformat(end_time)],
             total_errors |-> Len(formatted_errors),
             total_slow_requests |-> Len(formatted_slow),
             has_recent_activity |-> Len(formatted_recent) > 0,
             slow_request_threshold |-> threshold,
             max_results_per_type |-> lim,
             insights |-> Insights(formatted_errors, formatted_slow, formatted_recent)]
    IN IF b1.raised # None
       THEN [raised |-> b1.raised, calls |-> r1.calls,
             failed |-> {"errors"}, value |-> NoValue]
       ELSE IF b2.raised # None
       THEN [raised |-> b2.raised, calls |-> r1.calls \o r2.calls,
             failed |-> {b \in {"errors"} : b1.failed} \cup {"slow"},
             value |-> NoValue]
       ELSE IF b3.raised # None
       THEN [raised |-> b3.raised, calls |-> r1.calls \o r2.calls \o r3.calls,
             failed |-> {b \in {"errors"} : b1.failed}
                          \cup {b \in {"slow"} : b2.failed} \cup {"recent"},
             value |-> NoValue]
       ELSE
       [raised |-> None,
        calls  |-> r1.calls \o r2.calls \o r3.calls,
        failed |-> {b \in {"errors"} : b1.failed}
                     \cup {b \in {"slow"} : b2.failed}
                     \cup {b \in {"recent"} : b3.failed},
        value  |-> [summary |-> summary,
                    error_logs |-> formatted_errors,
                    slow_requests |-> formatted_slow,
                    most_recent_log |-> IF formatted_recent # <<>>
                                        THEN <<formatted_recent[1]>> ELSE <<>>]]

(***************************************************************************)
(* Flow specification: one invocation of fetch_user_logs, each of its      *)
(* three searches answered or failed by the backend.  The handler reads    *)
(* and writes no state that outlives the call, so every invocation is an   *)
(* invocation from the initial state.                                      *)
(***************************************************************************)
HitSlow ==
    [_index |-> "app-logs-2024-02",
     _source |-> ("@timestamp" :> "2024-01-15T10:31:00Z" @@
                  "json" :> [levelname |-> "INFO", message |-> "GET /x",
                             hostname |-> "pod-2", service_name |-> "api",
                             mobile_user_id |-> 41343,
                             extra |-> [request_time |-> 35, method |-> "GET",
                                        url |-> "/x"]])]

\* n copies of a hit
Rep(hit, n) == [i \in 1..n |-> hit]

ErrorHitCounts  == {0, 1, HIGH_ERROR_COUNT + 1}
SlowHitCounts   == {0, 1, MANY_SLOW_REQUESTS + 1}
RecentHitCounts == {0, 1}

ErrorBackends  == ConnectionFailure \cup
    {Answers(SearchResponse(Rep(HitError, n), None)) : n \in ErrorHitCounts}
SlowBackends   == ConnectionFailure \cup
    {Answers(SearchResponse(Rep(HitSlow, n), None)) : n \in SlowHitCounts}
RecentBackends == ConnectionFailure \cup
    {Answers(SearchResponse(Rep(HitSlow, n), None)) : n \in RecentHitCounts}

NoStart == [kind |-> "none"]
StartTimes ==
    {NoStart, [kind |-> "empty"], [kind |-> "garbage"],
     [kind |-> "iso", t |-> 3000, tz |-> "Z"],
     [kind |-> "iso", t |-> 3000, tz |-> "+02:00"],
     [kind |-> "iso", t |-> 3000, tz |-> ""]}

Nows == {5000}

\* the argument tuples of fetch_user_logs: the defaults, and each argument
\* varied over its interesting values
FlowDefaults ==
    [user_id |-> 41343, timeframe_minutes |-> 60, slow_request_threshold |-> 20,
     limit |-> 100, start_time |-> NoStart]
FlowInputs ==
    {FlowDefaults}
      \cup {[FlowDefaults EXCEPT !.timeframe_minutes = m] :
              m \in {-5, 0, MAX_TIMEFRAME_MINUTES, MAX_TIMEFRAME_MINUTES + 1}}
      \cup {[FlowDefaults EXCEPT !.limit = l] : l \in {0, MAX_USER_LOG_LIMIT + 1}}
      \cup {[FlowDefaults EXCEPT !.slow_request_threshold = th] : th \in {0}}
      \cup {[FlowDefaults EXCEPT !.start_time = st] : st \in StartTimes}
      \cup {[FlowDefaults EXCEPT !.user_id = 7]}
      \cup {[FlowDefaults EXCEPT !.start_time = st, !.timeframe_minutes = m] :
              st \in {[kind |-> "garbage"], [kind |-> "iso", t |-> 3000, tz |-> "Z"]},
              m \in {0, MAX_TIMEFRAME_MINUTES + 1}}

InitFlow ==
    /\ flow = [op |-> "none"]
    /\ INDEX_REGISTRY = InitialRegistry
    /\ environ = [n \in EnvVarNames |-> None]
    /\ reg_ret = [op |-> "none"]
    /\ IdleVal /\ IdlePrim
    /\ IdleTypes /\ IdleTools /\ IdleBugsnag

CallFetchUserLogs ==
    \E in \in FlowInputs, now \in Nows,
       e \in ErrorBackends, sl \in SlowBackends, rc \in RecentBackends :
       LET r == fetch_user_logs(in.user_id, in.timeframe_minutes,
                                in.slow_request_threshold, in.limit,
                                in.start_time, now, <<e, sl, rc>>)
       IN /\ flow.op = "none"
          /\ flow' = [op |-> "fetch_user_logs", args |-> in, now |-> now,
                      backends |-> <<e, sl, rc>>,
                      raised |-> r.raised, calls |-> r.calls,
                      failed |-> r.failed, value |-> r.value]
          /\ UNCHANGED <<regVars, valVars, primVars, typeVars, toolVars, bugVars>>

NextFlow == CallFetchUserLogs

SpecFlow == InitFlow /\ [][NextFlow]_vars

(***************************************************************************)
(* utils/validation.py : the two clamps the tools call                     *)
(***************************************************************************)
validate_size(size, max_size) == clamp_value(size, 1, max_size)

validate_timeframe(minutes, max_minutes) == clamp_value(minutes, 1, max_minutes)

DEFAULT_MAX_SIZE == 10000
DEFAULT_MAX_MINUTES == 10080

\* the maxima the clamps are called with: the defaults, the one of the
\* tools, small ones, and maxima below the minimum of 1
ClampMaxima == {-2, 0, 1, 2, MAX_TIMEFRAME_MINUTES,
                DEFAULT_MAX_SIZE, DEFAULT_MAX_MINUTES}

\* the values clamped: a neighbourhood of the minimum and of every maximum
ClampValues == UNION {{m - 1, m, m + 1} : m \in ClampMaxima \cup {-4, 4}}

CallClampValue ==
    \E value \in ClampValues, max_value \in ClampMaxima :
       /\ ret' = [op |-> "clamp_value", value |-> value, max_value |-> max_value,
                  result |-> clamp_value(value, 1, max_value),
                  again |-> clamp_value(clamp_value(value, 1, max_value), 1, max_value)]
       /\ UNCHANGED <<es_calls, scroll_ctx, clear_attempted, regVars, valVars, flowVars, typeVars, toolVars, bugVars>>

CallValidateSize ==
    \E size \in ClampValues, max_size \in ClampMaxima :
       /\ ret' = [op |-> "validate_size", value |-> size, max_value |-> max_size,
                  result |-> validate_size(size, max_size),
                  again |-> validate_size(validate_size(size, max_size), max_size)]
       /\ UNCHANGED <<es_calls, scroll_ctx, clear_attempted, regVars, valVars, flowVars, typeVars, toolVars, bugVars>>

CallValidateTimeframe ==
    \E minutes \in ClampValues, max_minutes \in ClampMaxima :
       /\ ret' = [op |-> "validate_timeframe", value |-> minutes, max_value |-> max_minutes,
                  result |-> validate_timeframe(minutes, max_minutes),
                  again |-> validate_timeframe(validate_timeframe(minutes, max_minutes),
                                               max_minutes)]
       /\ UNCHANGED <<es_calls, scroll_ctx, clear_attempted, regVars, valVars, flowVars, typeVars, toolVars, bugVars>>

NextClamp ==
    \/ CallClampValue
    \/ CallValidateSize
    \/ CallValidateTimeframe

SpecClamp == InitPrim /\ [][NextClamp]_vars

(***************************************************************************)
(* utils/query_builder.py                                                  *)
(*                                                                         *)
(* An Optional datetime or integer argument is <<>> when absent and <<v>>  *)
(* when given; an Optional list is the list, <<>> when absent (the code    *)
(* tests these lists for truthiness only).                                 *)
(***************************************************************************)
\* datetime.utcnow(): the clock's reading, as a naive datetime
utcnow(now) == [t |-> now, tz |-> ""]

\* start - timedelta(minutes=m)
minus_minutes(dt, m) == [t |-> dt.t - m, tz |-> dt.tz]

\* the variant in which minutes_ago fills in only the bounds not given
build_time_range_query_keeping_bounds(field, start, end, minutes_ago, now) ==
    LET end1   == IF minutes_ago # <<>> /\ end = <<>> THEN <<utcnow(now)>> ELSE end
        start1 == IF minutes_ago # <<>> /\ start = <<>>
                  THEN <<minus_minutes(end1[1], minutes_ago[1])>> ELSE start
        gte == IF start1 # <<>> THEN "gte" :> isoformat(start1[1]) ELSE <<>>
        lte == IF end1 # <<>> THEN "lte" :> isoformat(end1[1]) ELSE <<>>
    IN [range |-> (field :> (gte @@ lte))]

build_time_range_query(field, start, end, minutes_ago, now) ==
    LET end1   == IF minutes_ago # <<>> THEN <<utcnow(now)>> ELSE end
        start1 == IF minutes_ago # <<>>
                  THEN <<minus_minutes(end1[1], minutes_ago[1])>> ELSE start
        gte == IF start1 # <<>> THEN "gte" :> isoformat(start1[1]) ELSE <<>>
        lte == IF end1 # <<>> THEN "lte" :> isoformat(end1[1]) ELSE <<>>
    IN [range |-> (field :> (gte @@ lte))]

build_bool_query_truthy_minimum(must, must_not, should, filter, minimum_should_match) ==
    [bool |-> Opt(must # <<>>, "must", must)
                @@ Opt(must_not # <<>>, "must_not", must_not)
                @@ Opt(should # <<>>, "should", should)
                @@ Opt(filter # <<>>, "filter", filter)
                @@ (IF minimum_should_match # <<>> /\ minimum_should_match # <<0>>
                    THEN "minimum_should_match" :> minimum_should_match[1]
                    ELSE <<>>)]

build_match_query(field, value, operator, fuzziness) ==
    [match |-> (field :> ([query |-> value, operator |-> operator]
                            @@ Opt(Truthy(fuzziness), "fuzziness", fuzziness)))]

build_bool_query(must, must_not, should, filter, minimum_should_match) ==
    [bool |-> Opt(must # <<>>, "must", must)
                @@ Opt(must_not # <<>>, "must_not", must_not)
                @@ Opt(should # <<>>, "should", should)
                @@ Opt(filter # <<>>, "filter", filter)
                @@ (IF minimum_should_match # <<>>
                    THEN "minimum_should_match" :> minimum_should_match[1]
                    ELSE <<>>)]

(***************************************************************************)
(* Query builder specification: one call of a builder after another, on    *)
(* each argument tuple.                                                    *)
(***************************************************************************)
\* explicit bounds: absent, a naive datetime, a datetime aware in UTC
RangeBounds(t) == {<<>>, <<[t |-> t, tz |-> ""]>>, <<[t |-> t, tz |-> "+00:00"]>>}

\* minutes_ago: absent, what the tools pass after validate_timeframe (1 to
\* 1440), and the values at and below zero that the builder itself accepts
MinutesAgo == {<<>>, <<-5>>, <<0>>, <<1>>, <<60>>, <<MAX_TIMEFRAME_MINUTES>>}

BuilderNows == {5000, 5001}

CallBuildTimeRange ==
    \E start \in RangeBounds(3000), end \in RangeBounds(4000),
       minutes_ago \in MinutesAgo, now \in BuilderNows :
       /\ ret' = [op |-> "build_time_range_query", field |-> "@timestamp",
                  start |-> start, end |-> end, minutes_ago |-> minutes_ago,
                  now |-> now,
                  value |-> build_time_range_query("@timestamp", start, end,
                                                   minutes_ago, now)]
       /\ UNCHANGED <<es_calls, scroll_ctx, clear_attempted, regVars, valVars, flowVars, typeVars, toolVars, bugVars>>

Fragment1 == [term |-> ("json.levelname.keyword" :> "ERROR")]
Fragment2 == [match |-> ("json.message" :> [query |-> "boom", operator |-> "or"])]

\* a clause list: absent or empty, one fragment, two fragments
ClauseLists == {<<>>, <<Fragment1>>, <<Fragment1, Fragment2>>}

\* minimum_should_match: absent, 0, 1
MinimumShouldMatch == {<<>>, <<0>>, <<1>>}

CallBuildBool ==
    \E must \in ClauseLists, must_not \in ClauseLists, should \in ClauseLists,
       filter \in ClauseLists, minimum_should_match \in MinimumShouldMatch :
       /\ ret' = [op |-> "build_bool_query",
                  clauses |-> [must |-> must, must_not |-> must_not,
                               should |-> should, filter |-> filter],
                  minimum_should_match |-> minimum_should_match,
                  value |-> build_bool_query(must, must_not, should, filter,
                                             minimum_should_match)]
       /\ UNCHANGED <<es_calls, scroll_ctx, clear_attempted, regVars, valVars, flowVars, typeVars, toolVars, bugVars>>

NextBuilders ==
    \/ CallBuildTimeRange
    \/ CallBuildBool

SpecBuilders == InitPrim /\ [][NextBuilders]_vars

(***************************************************************************)
(* mcp_types/domain.py                                                     *)
(*                                                                         *)
(* The text of an @timestamp is [kind, t, tz]: kind "iso" for a well       *)
(* formed ISO-8601 text reading t with offset text tz, any other kind for  *)
(* a text datetime.fromisoformat rejects ("empty" is the empty string).    *)
(***************************************************************************)
LogLevelValues == {"DEBUG", "INFO", "WARNING", "ERROR", "CRITICAL"}

\* LogLevel(value): the member with that value, or ValueError
LogLevel(value) ==
    IF value \in LogLevelValues THEN [ok |-> TRUE, level |-> value]
    ELSE [ok |-> FALSE]

\* the `mapping` of LogLevel.from_string
LevelAliases ==
    [D |-> "DEBUG", I |-> "INFO", W |-> "WARNING", WARN |-> "WARNING",
     E |-> "ERROR", ERR |-> "ERROR", C |-> "CRITICAL", CRIT |-> "CRITICAL",
     FATAL |-> "CRITICAL"]

\* str.upper() on the level names of the model
UpperLevel(s) ==
    CASE s = "error"   -> "ERROR"
      [] s = "warning" -> "WARNING"
      [] s = "warn"    -> "WARN"
      [] s = "trace"   -> "TRACE"
      [] OTHER         -> s

\* LogLevel.from_string: `mapping.get(value, cls(value))` evaluates its
\* default cls(value) before the lookup, so a name that is not a member's
\* value raises ValueError whether or not `mapping` knows it
LogLevel_from_string(value) ==
    LET v == UpperLevel(value)
        default == LogLevel(v)
    IN IF ~default.ok THEN default
       ELSE IF v \in DOMAIN LevelAliases
       THEN [ok |-> TRUE, level |-> LevelAliases[v]]
       ELSE default

\* the json keys AppLog.from_elastic does not copy into `extra`
AppLogNamedKeys ==
    {"levelname", "message", "hostname", "service_name", "module",
     "trace_id", "request_id", "user_id", "environment"}

\* AppLog.from_elastic: the AppLog, or the exception it raises
AppLog_from_elastic(doc) ==
    LET source    == Get(doc, "_source", <<>>)
        json_data == Get(source, "json", <<>>)
        timestamp == fromisoformat_Z(Get(source, "@timestamp", [kind |-> "empty"]))
        level     == LogLevel_from_string(Get(json_data, "levelname", "INFO"))
    IN IF ~timestamp.ok THEN [raised |-> "ValueError"]
       ELSE IF ~level.ok THEN [raised |-> "ValueError"]
       ELSE [raised |-> None,
             timestamp |-> timestamp.dt,
             level |-> level.level,
             message |-> Get(json_data, "message", ""),
             pod |-> Get(json_data, "hostname", ""),
             service |-> Get(json_data, "service_name", None),
             module |-> Get(json_data, "module", None),
             trace_id |-> Get(json_data, "trace_id", None),
             request_id |-> Get(json_data, "request_id", None),
             user_id |-> Get(json_data, "user_id", None),
             environment |-> Get(json_data, "environment", None),
             deployment |-> Get(source, "ct_deployment", None),
             namespace |-> Get(source, "ct_feature", None),
             extra |-> [k \in DOMAIN json_data \ AppLogNamedKeys |-> json_data[k]]]

(***************************************************************************)
(* utils/response_parser.py                                                *)
(***************************************************************************)
\* extract_bucket_values: the value_field of every bucket that has one
extract_bucket_values(aggregation, value_field) ==
    LET buckets == Get(aggregation, "buckets", <<>>)
        has(bucket) == value_field \in DOMAIN bucket
        kept == SelectSeq(buckets, has)
    IN [i \in DOMAIN kept |-> kept[i][value_field]]

(***************************************************************************)
(* server.py : the wrapper tools search_app_logs and list_active_pods and  *)
(* the flow tool investigate_issues.                                       *)
(*                                                                         *)
(* A tool yields [raised, message, value, calls, registry]: as for a       *)
(* primitive, and the content of INDEX_REGISTRY after the call.            *)
(***************************************************************************)
MAX_APP_LOG_LIMIT == 1000
PODS_AGG_SIZE == 1000
INVESTIGATE_LIMIT == 50
TOP_N == 10
HIGH_ERROR_RATE == 20
MANY_SLOW_LOGS == 10

\* the registry's and the environment's patterns as the characters
\* validate_index_pattern inspects
Chars(pattern) ==
    CASE pattern = "app-logs-prod-*" ->
           <<"a", "p", "p", "-", "l", "o", "g", "s", "-", "p", "r", "o", "d", "-", "*">>
      [] pattern = "app-logs-staging-*" ->
           <<"a", "p", "p", "-", "l", "o", "g", "s", "-",
             "s", "t", "a", "g", "i", "n", "g", "-", "*">>
      [] pattern = "app-logs-dev-*" ->
           <<"a", "p", "p", "-", "l", "o", "g", "s", "-", "d", "e", "v", "-", "*">>
      [] pattern = "env-*" -> <<"e", "n", "v", "-", "*">>

\* f"{field}.keyword" for the physical fields of the app_logs entries; an
\* absent mapping formats as the text None
Keyword(field) ==
    CASE field = "json.hostname"     -> "json.hostname.keyword"
      [] field = "hostname"          -> "hostname.keyword"
      [] field = "json.service_name" -> "json.service_name.keyword"
      [] field = "service"           -> "service.keyword"
      [] field = "json.levelname"    -> "json.levelname.keyword"
      [] field = "level"             -> "level.keyword"
      [] field = None                -> "None.keyword"

\* the dict search_app_logs appends for a parsed hit (server.py:269-281)
NormalizedEntry(app_log) ==
    [timestamp |-> isoformat(app_log.timestamp),
     level |-> app_log.level,
     message |-> app_log.message,
     pod |-> app_log.pod,
     service |-> app_log.service,
     module |-> app_log.module,
     trace_id |-> app_log.trace_id,
     request_id |-> app_log.request_id,
     environment |-> app_log.environment,
     deployment |-> app_log.deployment,
     namespace |-> app_log.namespace]

\* an iteration that keeps a marker for a hit that failed to parse
NormalizeHitNoSkip(results, hit) ==
    LET app_log == AppLog_from_elastic(hit)
    IN IF app_log.raised # None THEN Append(results, [error |-> app_log.raised])
       ELSE Append(results, NormalizedEntry(app_log))

\* one iteration of `for hit in response.hits: try: ... except Exception`
NormalizeHit(results, hit) ==
    LET app_log == AppLog_from_elastic(hit)
    IN IF app_log.raised # None THEN results
       ELSE Append(results, NormalizedEntry(app_log))

\* the loop of server.py:266-284
NormalizeHits(hits) ==
    LET results[i \in 0..Len(hits)] ==
            IF i = 0 THEN <<>> ELSE NormalizeHit(results[i - 1], hits[i])
    IN results[Len(hits)]

\* the element of a singleton.  Only({e : x \in {v}}) is e with x bound to
\* the value of v: the Python assignment `x = v`, v being computed once
Only(S) == CHOOSE x \in S : TRUE

\* an exception of a tool, leaving the registry as `store`
ToolRaised(type, message, calls, store) ==
    Raised(type, message, calls) @@ [registry |-> store]

ToolReturned(value, calls, store) ==
    Returned(value, calls) @@ [registry |-> store]

search_app_logs(pod_name, service_name, level, message_filter, timeframe_minutes, limit, environment, store, env, now, backend) ==
    Only({
      IF index_config.raised # None
      THEN ToolRaised(index_config.raised,
                      <<"Unknown environment: ", environment1>>, <<>>,
                      index_config.registry)
      ELSE Only({
        Only({
          IF response.raised # None
          THEN response @@ [registry |-> index_config.registry]
          ELSE ToolReturned(NormalizeHits(response.value.hits),
                            response.calls, index_config.registry) :
          response \in
            {search_elastic_logs(
                 Chars(index_config.value.pattern),
                 build_bool_query(
                     \* lines 206-210
                     << build_time_range_query(timestamp_field, <<>>, <<>>,
                                               <<timeframe>>, now) >>
                     \* lines 213-223
                     \o (IF Truthy(pod_name)
                         THEN << [bool |->
                                   [should |-> << [term |-> (Keyword(pod_field) :> pod_name)],
                                                  [term |-> (pod_field :> pod_name)] >>,
                                    minimum_should_match |-> 1]] >>
                         ELSE <<>>)
                     \* lines 226-228
                     \o (IF Truthy(service_name)
                         THEN << [term |-> (Keyword(service_field) :> service_name)] >>
                         ELSE <<>>)
                     \* lines 231-240
                     \o (IF Truthy(level)
                         THEN IF Len(level_values) = 1
                              THEN << [term |-> (Keyword(level_field) :> level_values[1])] >>
                              ELSE << [terms |-> (Keyword(level_field) :> level_values)] >>
                         ELSE <<>>)
                     \* lines 243-245
                     \o (IF Truthy(message_filter)
                         THEN << build_match_query(message_field, message_filter,
                                                   "or", None) >>
                         ELSE <<>>),
                     <<>>, <<>>, <<>>, <<>>),
                 lim, 0,
                 << (timestamp_field :> [order |-> "desc"]) >>,
                 None, backend)}}) :
        timestamp_field \in
          {get_field_mapping(store, env, environment1, "app_logs", "timestamp").value},
        pod_field \in
          {get_field_mapping(store, env, environment1, "app_logs", "pod").value},
        service_field \in
          {get_field_mapping(store, env, environment1, "app_logs", "service").value},
        level_field \in
          {get_field_mapping(store, env, environment1, "app_logs", "level").value},
        level_values \in
          {get_level_mapping(store, env, environment1, "app_logs",
                             UpperLevel(level)).value},
        message_field \in
          {get_field_mapping(store, env, environment1, "app_logs", "message").value}}) :
      environment1 \in {IF environment = None THEN get_current_environment
                        ELSE environment},
      timeframe \in {validate_timeframe(timeframe_minutes, MAX_TIMEFRAME_MINUTES)},
      lim \in {validate_size(limit, MAX_APP_LOG_LIMIT)},
      index_config \in {get_index_config(store, env,
                              IF environment = None THEN get_current_environment
                              ELSE environment,
                              "app_logs", None)}})

list_active_pods(timeframe_minutes, environment, store, env, now, backend) ==
    LET environment1 == IF environment = None THEN get_current_environment
                        ELSE environment
        timeframe == validate_timeframe(timeframe_minutes, MAX_TIMEFRAME_MINUTES)
        timestamp_field ==
            get_field_mapping(store, env, environment1, "app_logs", "timestamp").value
        pod_field ==
            get_field_mapping(store, env, environment1, "app_logs", "pod").value
        aggregations ==
            [pods |-> [terms |-> [field |-> Keyword(pod_field), size |-> PODS_AGG_SIZE]]]
        is_str(pod) == "str" \in DOMAIN pod
    IN Only({
         IF index_config.raised # None
         THEN ToolRaised(index_config.raised,
                         <<"Unknown environment: ", environment1>>, <<>>,
                         index_config.registry)
         ELSE Only({
                IF response.raised # None
                THEN response @@ [registry |-> index_config.registry]
                ELSE LET pods == extract_bucket_values(
                                     Get(response.value.aggregations, "pods", <<>>),
                                     "key")
                         names == SelectSeq(pods, is_str)
                     IN ToolReturned([i \in DOMAIN names |-> names[i].str],
                                     response.calls, index_config.registry) :
                response \in
                  {aggregate_elastic_data(index_pattern, query, aggregations,
                                          0, backend) :
                     index_pattern \in {Chars(index_config.value.pattern)},
                     query \in {build_time_range_query(timestamp_field, <<>>, <<>>,
                                                       <<timeframe>>, now)}}}) :
         index_config \in {get_index_config(store, env, environment1,
                                            "app_logs", None)}})

\* errors[:10]
Top(logs, n) == SubSeq(logs, 1, Min2(n, Len(logs)))

\* investigate_issues: `backends` are the transport's reactions to the three
\* searches; an exception of a search leaves the function at that call
\* the report of server.py:406-423 for the three lists of entries
InvestigationReport(service_name, timeframe_minutes, environment, errors, warnings, slow_requests) ==
    [summary |-> <<"Issue investigation for ",
                   IF Truthy(service_name) THEN service_name ELSE "all services">>,
     timeframe_minutes |-> timeframe_minutes,
     environment |-> environment,
     error_count |-> Len(errors),
     warning_count |-> Len(warnings),
     slow_request_count |-> Len(slow_requests),
     top_errors |-> Top(errors, TOP_N),
     top_warnings |-> Top(warnings, TOP_N),
     top_slow_requests |-> Top(slow_requests, TOP_N),
     recommendations |->
         (IF Len(errors) > HIGH_ERROR_RATE
          THEN <<"High error rate detected - investigate error patterns">>
          ELSE <<>>)
         \o (IF Len(slow_requests) > MANY_SLOW_LOGS
             THEN <<"Performance degradation detected - check resource usage">>
             ELSE <<>>)]

\* investigate_issues: `backends` are the transport's reactions to the three
\* searches, in the order of the calls; an exception of a search leaves the
\* function at that call, so the later searches are not made
investigate_issues(service_name, timeframe_minutes, environment, store, env, now, backends) ==
    Only({
      IF errors.raised # None THEN errors
      ELSE Only({
        IF warnings.raised # None
        THEN [warnings EXCEPT !.calls = errors.calls \o warnings.calls]
        ELSE Only({
          IF slow_requests.raised # None
          THEN [slow_requests EXCEPT
                  !.calls = errors.calls \o warnings.calls \o slow_requests.calls]
          ELSE ToolReturned(
                   InvestigationReport(
                       service_name, timeframe_minutes,
                       IF environment = None THEN get_current_environment
                       ELSE environment,
                       errors.value, warnings.value, slow_requests.value),
                   errors.calls \o warnings.calls \o slow_requests.calls,
                   slow_requests.registry) :
          slow_requests \in
            {search_app_logs(None, service_name, None, "slow", timeframe_minutes,
                             INVESTIGATE_LIMIT,
                             IF environment = None THEN get_current_environment
                             ELSE environment,
                             warnings.registry, env, now, backends[3])}}) :
        warnings \in
          {search_app_logs(None, service_name, "WARNING", None, timeframe_minutes,
                           INVESTIGATE_LIMIT,
                           IF environment = None THEN get_current_environment
                           ELSE environment,
                           errors.registry, env, now, backends[2])}}) :
      errors \in
        {search_app_logs(None, service_name, "ERROR", None, timeframe_minutes,
                         INVESTIGATE_LIMIT,
                         IF environment = None THEN get_current_environment
                         ELSE environment,
                         store, env, now, backends[1])}})

(***************************************************************************)
(* tools/primitives/bugsnag.py : what a primitive returns                  *)
(***************************************************************************)
BugsnagOps ==
    {"search_bugsnag_errors", "get_bugsnag_error_details",
     "get_bugsnag_error_events", "get_bugsnag_projects"}

\* the f-string prefix of each primitive's error value
ErrorPrefix(op) ==
    CASE op = "search_bugsnag_errors"     -> "Bugsnag search failed: "
      [] op = "get_bugsnag_error_details" -> "Failed to get error details: "
      [] op = "get_bugsnag_error_events"  -> "Failed to get error events: "
      [] op = "get_bugsnag_projects"      -> "Failed to get projects: "

\* str(e) for the exceptions of the model
ExcText(exc) ==
    CASE exc = "ValueError"      -> "Invalid Bugsnag configuration"
      [] exc = "TimeoutError"    -> ""
      [] exc = "RunningLoop"     -> "asyncio.run() cannot be called from a running event loop"
      [] exc = "HTTPStatusError" -> "Client error '401 Unauthorized'"
      [] exc = "ConnectError"    -> "All connection attempts failed"
      [] exc = "RuntimeError"    -> "Event loop is closed"

\* the dict of the outer `except Exception as e`
ErrorValue(op, exc) ==
    [error |-> TRUE, message |-> <<ErrorPrefix(op), ExcText(exc)>>]
      @@ (CASE op = "search_bugsnag_errors"     -> [errors |-> <<>>]
            [] op = "get_bugsnag_error_details" -> <<>>
            [] op = "get_bugsnag_error_events"  -> [events |-> <<>>]
            [] op = "get_bugsnag_projects"      -> [projects |-> <<>>])

\* the value returned for the coroutine's result
SuccessValue(op, result) ==
    IF op = "get_bugsnag_projects"
    THEN [projects |-> result, count |-> Len(result)]
    ELSE result

BugsnagError(severity) ==
    [id |-> "e1", class |-> "TypeError", message |-> "x is undefined",
     severity |-> severity, events_count |-> 3]

\* what the Bugsnag API answers to each primitive's request
ApiResponse(op) ==
    CASE op = "search_bugsnag_errors"     -> [errors |-> <<BugsnagError("error")>>]
      [] op = "get_bugsnag_error_details" -> BugsnagError("error")
      [] op = "get_bugsnag_error_events"  -> <<[id |-> "ev1"]>>
      [] op = "get_bugsnag_projects"      -> <<[id |-> "p1", name |-> "Connecteam"]>>

(***************************************************************************)
(* tools/primitives/bugsnag.py : threads of one primitive call.            *)
(*                                                                         *)
(* The calling thread is at bs_pc: "future_result" while it blocks in      *)
(* future.result(timeout=30), "with_exit" while the `with` statement       *)
(* leaves the executor (shutdown(wait=True)), "asyncio_run" while it runs  *)
(* the coroutine itself, "returned" after the return statement.  The       *)
(* coroutine is bs_task: "created" until asyncio.run starts it,            *)
(* "requesting" while it awaits client.request inside the `async with`,    *)
(* "closing" while the `async with` closes the client, then "done".  The   *)
(* executor's worker thread is bs_worker: "started", "running" (inside     *)
(* asyncio.run), "idle" (work item finished), "exited".                    *)
(***************************************************************************)
TaskOutcomes == {"ok", "HTTPStatusError", "ConnectError", "RuntimeError"}

NoTask == [state |-> "none", outcome |-> None]
NoRet  == [exc |-> None, timed_out |-> FALSE, value |-> NoValue]

\* an executor shut down with wait=False: leaving the `with` never blocks
ExecutorJoinedNoWait(worker) == TRUE

\* ThreadPoolExecutor.__exit__ returns once the worker thread is joined
ExecutorJoined(worker) == worker = "exited"

\* the statements after the try/except RuntimeError, or the outer handler:
\* `exc` is the exception that left the inner try statement
PrimitiveReturns(op, exc, result) ==
    IF exc = None THEN SuccessValue(op, result) ELSE ErrorValue(op, exc)

CallBugsnagPrimitive ==
    \E op \in BugsnagOps, loop_running \in BOOLEAN, config_valid \in BOOLEAN :
       /\ bs_pc \in {"idle", "returned"}
       /\ bs_call' = [op |-> op, loop_running |-> loop_running]
       /\ IF ~config_valid
          THEN /\ bs_pc' = "returned"
               /\ bs_task' = NoTask
               /\ bs_worker' = "none"
               /\ bs_ret' = [NoRet EXCEPT !.value = ErrorValue(op, "ValueError")]
          ELSE IF loop_running
          THEN /\ bs_pc' = "future_result"
               /\ bs_task' = [state |-> "created", outcome |-> None]
               /\ bs_worker' = "started"
               /\ bs_ret' = NoRet
          ELSE /\ bs_pc' = "asyncio_run"
               /\ bs_task' = [state |-> "requesting", outcome |-> None]
               /\ bs_worker' = "none"
               /\ bs_ret' = NoRet
       /\ UNCHANGED <<regVars, valVars, primVars, flowVars, typeVars, toolVars>>

\* the worker thread takes the work item: asyncio.run starts the coroutine
WorkerRunsTask ==
    /\ bs_worker = "started"
    /\ bs_task.state = "created"
    /\ bs_worker' = "running"
    /\ bs_task' = [bs_task EXCEPT !.state = "requesting"]
    /\ UNCHANGED <<bs_call, bs_pc, bs_ret,
                   regVars, valVars, primVars, flowVars, typeVars, toolVars>>

\* _make_request: the request completes, or raises
TaskResponds ==
    \E outcome \in TaskOutcomes :
       /\ bs_task.state = "requesting"
       /\ bs_task' = [state |-> "closing", outcome |-> outcome]
       /\ UNCHANGED <<bs_call, bs_pc, bs_worker, bs_ret,
                      regVars, valVars, primVars, flowVars, typeVars, toolVars>>

\* the `async with` has closed the client; asyncio.run returns or raises
TaskFinishes ==
    /\ bs_task.state = "closing"
    /\ bs_task' = [bs_task EXCEPT !.state = "done"]
    /\ bs_worker' = IF bs_worker = "running" THEN "idle" ELSE bs_worker
    /\ UNCHANGED <<bs_call, bs_pc, bs_ret,
                   regVars, valVars, primVars, flowVars, typeVars, toolVars>>

\* future.result(timeout=30) yields the work item's result or exception
FutureResult ==
    /\ bs_pc = "future_result"
    /\ bs_task.state = "done"
    /\ bs_pc' = "with_exit"
    /\ bs_ret' = [exc |-> IF bs_task.outcome = "ok" THEN None ELSE bs_task.outcome,
                  timed_out |-> FALSE,
                  value |-> IF bs_task.outcome = "ok" THEN ApiResponse(bs_call.op)
                            ELSE NoValue]
    /\ UNCHANGED <<bs_call, bs_task, bs_worker,
                   regVars, valVars, primVars, flowVars, typeVars, toolVars>>

\* the 30 s elapse before the work item has finished
ResultTimeout ==
    /\ bs_pc = "future_result"
    /\ bs_task.state # "done"
    /\ bs_pc' = "with_exit"
    /\ bs_ret' = [exc |-> "TimeoutError", timed_out |-> TRUE, value |-> NoValue]
    /\ UNCHANGED <<bs_call, bs_task, bs_worker,
                   regVars, valVars, primVars, flowVars, typeVars, toolVars>>

\* shutdown was requested and the worker has no work left
WorkerExits ==
    /\ bs_pc = "with_exit"
    /\ bs_worker = "idle"
    /\ bs_worker' = "exited"
    /\ UNCHANGED <<bs_call, bs_pc, bs_task, bs_ret,
                   regVars, valVars, primVars, flowVars, typeVars, toolVars>>

\* the `with` statement is left.  A RuntimeError of the work item enters
\* `except RuntimeError`, whose asyncio.run(...) raises at once because a
\* loop is running; every other exception goes to the outer handler
LeaveWith ==
    /\ bs_pc = "with_exit"
    /\ ExecutorJoined(bs_worker)
    /\ bs_pc' = "returned"
    /\ bs_ret' = [bs_ret EXCEPT
                    !.exc = None,
                    !.value = PrimitiveReturns(
                                  bs_call.op,
                                  IF bs_ret.exc = "RuntimeError" THEN "RunningLoop"
                                  ELSE bs_ret.exc,
                                  bs_ret.value)]
    /\ UNCHANGED <<bs_call, bs_task, bs_worker,
                   regVars, valVars, primVars, flowVars, typeVars, toolVars>>

\* no loop was running: asyncio.run in the calling thread has finished
AsyncioRunReturns ==
    /\ bs_pc = "asyncio_run"
    /\ bs_task.state = "done"
    /\ bs_pc' = "returned"
    /\ bs_ret' = [exc |-> None, timed_out |-> FALSE,
                  value |-> PrimitiveReturns(
                                bs_call.op,
                                IF bs_task.outcome = "ok" THEN None
                                ELSE bs_task.outcome,
                                ApiResponse(bs_call.op))]
    /\ UNCHANGED <<bs_call, bs_task, bs_worker,
                   regVars, valVars, primVars, flowVars, typeVars, toolVars>>

InitBugsnag ==
    /\ IdleBugsnag
    /\ INDEX_REGISTRY = InitialRegistry
    /\ environ = [n \in EnvVarNames |-> None]
    /\ reg_ret = [op |-> "none"]
    /\ IdleVal /\ IdlePrim /\ IdleFlow /\ IdleTypes /\ IdleTools

NextBugsnag ==
    \/ CallBugsnagPrimitive
    \/ WorkerRunsTask
    \/ TaskResponds
    \/ TaskFinishes
    \/ FutureResult
    \/ ResultTimeout
    \/ WorkerExits
    \/ LeaveWith
    \/ AsyncioRunReturns

SpecBugsnag == InitBugsnag /\ [][NextBugsnag]_vars

(***************************************************************************)
(* tools/flows/bugsnag_user_analysis.py                                    *)
(*                                                                         *)
(* `outcomes` are what search_bugsnag_errors returns for each project, as  *)
(* an Optional: <<>> for None, <<d>> for the dict d.                       *)
(***************************************************************************)
DEFAULT_BUGSNAG_TIMEFRAME == 1440
DEFAULT_LIMIT_PER_PROJECT == 25

\* datetime.strftime('%Y-%m-%dT%H:%M:%SZ'): the datetime's own reading
\* followed by a literal Z, whatever its offset
strftime_Z(dt) == [minutes |-> dt.t, offset |-> "Z"]

\* the `projects` dict, in its insertion order
BugsnagProjects ==
    << [key |-> "mobile", id |-> "5d3d37ee9e40380011caf720",
        name |-> "Connecteam (Mobile)", type |-> "mobile"],
       [key |-> "dashboard", id |-> "607c531330d97a000df4982c",
        name |-> "Connecteam-Dashboard (Web)", type |-> "dashboard"] >>

\* the dict built for one error of a project (lines 114-128)
ProcessedError(error, project) ==
    [id |-> Get(error, "id", None),
     class |-> Get(error, "class", None),
     message |-> Get(error, "message", None),
     context |-> Get(error, "context", None),
     first_seen |-> Get(error, "first_seen", None),
     last_seen |-> Get(error, "last_seen", None),
     events_count |-> Get(error, "events_count", 0),
     users_count |-> Get(error, "users_count", 0),
     severity |-> Get(error, "severity", None),
     status |-> Get(error, "status", None),
     url |-> Get(error, "url", None),
     project_name |-> project.name,
     platform |-> project.type]

\* the variant of the iteration that records nothing for a project whose
\* search did not succeed
SearchProjectUnrecorded(results, project, outcome) ==
    LET project_errors == Get(outcome[1], "errors", <<>>)
        processed == [i \in DOMAIN project_errors |->
                        ProcessedError(project_errors[i], project)]
        info == [project_id |-> project.id, project_name |-> project.name,
                 project_type |-> project.type, errors_found |-> Len(processed),
                 status |-> "success"]
    IN IF outcome = <<>> THEN results
       ELSE IF Get(outcome[1], "error", FALSE) THEN results
       ELSE IF project.key = "mobile"
       THEN [results EXCEPT
               !.mobile_errors = processed,
               !.summary.total_mobile_errors = Len(processed),
               !.projects_searched = Append(@, info)]
       ELSE [results EXCEPT
               !.dashboard_errors = processed,
               !.summary.total_dashboard_errors = Len(processed),
               !.projects_searched = Append(@, info)]

\* one iteration of `for project_key, project_info in projects.items()`
SearchProject(results, project, outcome) ==
    LET info == [project_id |-> project.id, project_name |-> project.name,
                 project_type |-> project.type, errors_found |-> 0]
        project_result == outcome[1]
        project_errors == Get(project_result, "errors", <<>>)
        processed == [i \in DOMAIN project_errors |->
                        ProcessedError(project_errors[i], project)]
        critical == \E i \in DOMAIN project_errors :
                       Get(project_errors[i], "severity", None) = "error"
        stored ==
            IF project.key = "mobile"
            THEN [results EXCEPT
                    !.mobile_errors = processed,
                    !.summary.total_mobile_errors = Len(processed),
                    !.summary.has_mobile_issues = Len(processed) > 0]
            ELSE [results EXCEPT
                    !.dashboard_errors = processed,
                    !.summary.total_dashboard_errors = Len(processed),
                    !.summary.has_dashboard_issues = Len(processed) > 0]
    IN IF outcome = <<>>
       THEN [results EXCEPT !.projects_searched =
               Append(@, info @@ [status |-> "error",
                                  error_message |->
                                      <<"'NoneType' object has no attribute 'get'">>])]
       ELSE IF Get(project_result, "error", FALSE)
       THEN [results EXCEPT !.projects_searched =
               Append(@, info @@ [status |-> "error",
                                  error_message |->
                                      Get(project_result, "message", <<"Unknown error">>)])]
       ELSE [stored EXCEPT
               !.summary.critical_errors_found = @ \/ critical,
               !.projects_searched =
                   Append(@, [info EXCEPT !.errors_found = Len(processed)]
                               @@ [status |-> "success"])]

\* the insight strings of lines 166-185
BugsnagInsights(summary) ==
    IF summary.total_errors_across_platforms = 0
    THEN << <<"No errors found for this user across mobile and dashboard platforms">> >>
    ELSE (IF summary.has_mobile_issues
          THEN << <<summary.total_mobile_errors, " mobile app errors found">> >>
          ELSE <<>>)
         \o (IF summary.has_dashboard_issues
             THEN << <<summary.total_dashboard_errors, " dashboard errors found">> >>
             ELSE <<>>)
         \o (IF summary.critical_errors_found
             THEN << <<"Critical errors detected - immediate attention required">> >>
             ELSE <<>>)
         \o (IF summary.has_mobile_issues /\ summary.has_dashboard_issues
             THEN << <<"Cross-platform issues detected - may indicate backend or user-specific problem">> >>
             ELSE IF summary.has_mobile_issues /\ ~summary.has_dashboard_issues
             THEN << <<"Issues isolated to mobile platform">> >>
             ELSE IF summary.has_dashboard_issues /\ ~summary.has_mobile_issues
             THEN << <<"Issues isolated to dashboard platform">> >>
             ELSE <<>>)

fetch_bugsnag_user_logs(user_id, timeframe_minutes, start_time, limit_per_project, now, outcomes) ==
    LET parsed == fromisoformat_Z(start_time)
        given  == start_time.kind \notin {"none", "empty"} /\ parsed.ok
        start_time_dt == IF given THEN parsed.dt
                         ELSE [t |-> now - timeframe_minutes, tz |-> "+00:00"]
        end_time_dt == IF given
                       THEN [t |-> parsed.dt.t + timeframe_minutes, tz |-> parsed.dt.tz]
                       ELSE [t |-> now, tz |-> "+00:00"]
        results0 ==
            [user_id |-> user_id,
             search_period |-> [start |-> isoformat(start_time_dt),
                                end |-> isoformat(end_time_dt),
                                timeframe_minutes |-> timeframe_minutes],
             projects_searched |-> <<>>,
             mobile_errors |-> <<>>,
             dashboard_errors |-> <<>>,
             summary |-> [total_mobile_errors |-> 0,
                          total_dashboard_errors |-> 0,
                          total_errors_across_platforms |-> 0,
                          has_mobile_issues |-> FALSE,
                          has_dashboard_issues |-> FALSE,
                          critical_errors_found |-> FALSE]]
        calls == [i \in DOMAIN BugsnagProjects |->
                    [project_id |-> BugsnagProjects[i].id,
                     user_id |-> py_str(user_id),
                     start_time |-> strftime_Z(start_time_dt),
                     end_time |-> strftime_Z(end_time_dt),
                     limit |-> limit_per_project]]
        searched[i \in 0..Len(BugsnagProjects)] ==
            IF i = 0 THEN results0
            ELSE SearchProject(searched[i - 1], BugsnagProjects[i], outcomes[i])
        results1 == searched[Len(BugsnagProjects)]
        results2 == [results1 EXCEPT !.summary.total_errors_across_platforms =
                        results1.summary.total_mobile_errors
                          + results1.summary.total_dashboard_errors]
    IN [raised |-> None, message |-> <<>>, calls |-> calls,
        value |-> results2 @@ [insights |-> BugsnagInsights(results2.summary)]]

(***************************************************************************)
(* Tool specification: one invocation of a wrapper or flow tool against a  *)
(* backend that answers or raises.  The tools keep no state between calls  *)
(* (a lookup leaves the registry as it was), so every invocation is an     *)
(* invocation from the initial state.                                      *)
(***************************************************************************)
MaxHits == 2

IsoZ == [kind |-> "iso", t |-> 3000, tz |-> "Z"]

\* a raw hit of an app-logs index
AppHit(ts, levelname) ==
    [_index |-> "app-logs-2024-01",
     _source |-> ("@timestamp" :> ts @@
                  "json" :> [levelname |-> levelname, message |-> "boom",
                             hostname |-> "pod-1", service_name |-> "svc",
                             logger |-> "root"] @@
                  "ct_deployment" :> "web")]

HitGood         == AppHit(IsoZ, "ERROR")
HitLowerLevel   == AppHit([kind |-> "iso", t |-> 3100, tz |-> "+02:00"], "warning")
HitBadTimestamp == AppHit([kind |-> "garbage"], "ERROR")
HitUnknownLevel == AppHit(IsoZ, "TRACE")
HitAliasLevel   == AppHit(IsoZ, "WARN")
HitNoTimestamp  ==
    [_index |-> "app-logs-2024-01",
     _source |-> [json |-> [levelname |-> "ERROR", message |-> "no timestamp"]]]
HitNoLevel      ==
    [_index |-> "app-logs-2024-01",
     _source |-> ("@timestamp" :> IsoZ @@ "json" :> [message |-> "no level"])]
HitNoSource     == [_index |-> "app-logs-2024-01"]

HitKinds ==
    {HitGood, HitLowerLevel, HitBadTimestamp, HitUnknownLevel, HitAliasLevel,
     HitNoTimestamp, HitNoLevel, HitNoSource}

\* the process environment of a tool call: no override, or an app-logs one
ToolEnvirons ==
    {[n \in EnvVarNames |-> None],
     [n \in EnvVarNames |-> IF n = "ELASTIC_APP_LOGS_PATTERN" THEN "env-*" ELSE None]}

ToolLimits     == {-1, 0, 1, 200, 201, MAX_APP_LOG_LIMIT, MAX_APP_LOG_LIMIT + 1}
ToolTimeframes == {-5, 0, 1, MAX_TIMEFRAME_MINUTES, MAX_TIMEFRAME_MINUTES + 1}
ToolEnvironments == {None, "production", "staging", "development"}

\* the argument tuples of search_app_logs: the defaults on production, each
\* argument varied, and every filter at once on each environment
SearchAppLogsDefaults ==
    [pod_name |-> None, service_name |-> None, level |-> None,
     message_filter |-> None, timeframe_minutes |-> 60, limit |-> DefaultSize,
     environment |-> "production"]
SearchAppLogsInputs ==
    {SearchAppLogsDefaults}
      \cup {[SearchAppLogsDefaults EXCEPT !.limit = l, !.environment = e] :
              l \in ToolLimits, e \in {"production", "development"}}
      \cup {[SearchAppLogsDefaults EXCEPT !.timeframe_minutes = m] : m \in ToolTimeframes}
      \cup {[SearchAppLogsDefaults EXCEPT !.environment = e] : e \in ToolEnvironments}
      \cup {[SearchAppLogsDefaults EXCEPT !.level = l] :
              l \in {"error", "ERROR", "warning", "trace", ""}}
      \cup {[SearchAppLogsDefaults EXCEPT !.pod_name = "pod-1", !.service_name = "svc",
                                          !.level = "ERROR", !.message_filter = "boom",
                                          !.environment = e] :
              e \in {"production", "development"}}

ToolBackends ==
    ConnectionFailure \cup {Answers(SearchResponse(<<HitGood, HitLowerLevel>>, None))}
HitListBackends ==
    {Answers(SearchResponse(hits, None)) : hits \in SeqsUpTo(HitKinds, MaxHits)}

SearchAppLogsCases ==
    (SearchAppLogsInputs \X ToolBackends)
      \cup ({SearchAppLogsDefaults} \X HitListBackends)

\* the buckets of a terms aggregation; a key is [str |-> s] for a string
\* and [int |-> n] for a number
PodBuckets ==
    << [key |-> [str |-> "pod-1"], doc_count |-> 5],
       [key |-> [int |-> 7], doc_count |-> 2],
       [doc_count |-> 1],
       [key |-> [str |-> "pod-2"], doc_count |-> 1] >>
PodsBackends ==
    ConnectionFailure \cup
    {Answers([took |-> 3, timed_out |-> FALSE,
              aggregations |-> [pods |-> [buckets |-> PodBuckets]]]),
     Answers([took |-> 3, timed_out |-> FALSE,
              aggregations |-> [other |-> [buckets |-> PodBuckets]]]),
     Answers([took |-> 3, timed_out |-> FALSE])}

\* the reactions to the searches of investigate_issues: a failure, or as
\* many hits as the thresholds of the recommendations need
BranchBackends(counts) ==
    ConnectionFailure \cup
    {Answers(SearchResponse(Rep(HitGood, n), None)) : n \in counts}

InvestigateInputs ==
    {[service_name |-> s, timeframe_minutes |-> 60, environment |-> e] :
        s \in {None, "svc"}, e \in {None, "production", "development"}}
      \cup {[service_name |-> None, timeframe_minutes |-> m, environment |-> "production"] :
              m \in {0, MAX_TIMEFRAME_MINUTES + 1}}

\* what search_bugsnag_errors returns for a project
BugsnagOutcomes ==
    {<<>>,
     <<ErrorValue("search_bugsnag_errors", "ConnectError")>>,
     <<[errors |-> <<>>]>>,
     <<[errors |-> <<BugsnagError("error")>>]>>,
     <<[errors |-> <<BugsnagError("warning"), BugsnagError("info")>>]>>}

BugsnagFlowDefaults ==
    [user_id |-> 41343, timeframe_minutes |-> DEFAULT_BUGSNAG_TIMEFRAME,
     start_time |-> NoStart, limit_per_project |-> DEFAULT_LIMIT_PER_PROJECT]
BugsnagFlowInputs ==
    {[BugsnagFlowDefaults EXCEPT !.timeframe_minutes = m] :
        m \in ToolTimeframes \cup {60}}
      \cup {[BugsnagFlowDefaults EXCEPT !.start_time = st] : st \in StartTimes}
      \cup {[BugsnagFlowDefaults EXCEPT !.start_time = st,
                                        !.timeframe_minutes = MAX_TIMEFRAME_MINUTES + 1] :
              st \in {[kind |-> "iso", t |-> 3000, tz |-> "Z"]}}

InitTools ==
    /\ tool = [op |-> "none"]
    /\ INDEX_REGISTRY = InitialRegistry
    /\ environ \in ToolEnvirons
    /\ reg_ret = [op |-> "none"]
    /\ IdleVal /\ IdlePrim /\ IdleFlow /\ IdleTypes /\ IdleBugsnag

CallSearchAppLogs ==
    /\ tool.op = "none"
    /\ \E case \in SearchAppLogsCases, now \in Nows :
          \E r \in {search_app_logs(case[1].pod_name, case[1].service_name,
                                    case[1].level, case[1].message_filter,
                                    case[1].timeframe_minutes, case[1].limit,
                                    case[1].environment, INDEX_REGISTRY, environ,
                                    now, case[2])} :
             /\ tool' = [op |-> "search_app_logs", args |-> case[1], now |-> now,
                         backends |-> <<case[2]>>, raised |-> r.raised,
                         message |-> r.message, value |-> r.value, calls |-> r.calls]
             /\ INDEX_REGISTRY' = r.registry
             /\ UNCHANGED <<environ, reg_ret, valVars, primVars, flowVars, typeVars, bugVars>>

CallListActivePods ==
    /\ tool.op = "none"
    /\ \E m \in ToolTimeframes, e \in ToolEnvironments, b \in PodsBackends, now \in Nows :
          \E r \in {list_active_pods(m, e, INDEX_REGISTRY, environ, now, b)} :
             /\ tool' = [op |-> "list_active_pods",
                         args |-> [timeframe_minutes |-> m, environment |-> e],
                         now |-> now, backends |-> <<b>>, raised |-> r.raised,
                         message |-> r.message, value |-> r.value, calls |-> r.calls]
             /\ INDEX_REGISTRY' = r.registry
             /\ UNCHANGED <<environ, reg_ret, valVars, primVars, flowVars, typeVars, bugVars>>

CallInvestigateIssues ==
    /\ tool.op = "none"
    /\ \E in \in InvestigateInputs, now \in Nows,
          e \in BranchBackends({0, 1, HIGH_ERROR_RATE + 1}),
          w \in BranchBackends({0, 1}),
          s \in BranchBackends({0, MANY_SLOW_LOGS + 1}) :
          \E r \in {investigate_issues(in.service_name, in.timeframe_minutes,
                                       in.environment, INDEX_REGISTRY, environ, now,
                                       <<e, w, s>>)} :
             /\ tool' = [op |-> "investigate_issues", args |-> in, now |-> now,
                         backends |-> <<e, w, s>>, raised |-> r.raised,
                         message |-> r.message, value |-> r.value, calls |-> r.calls]
             /\ INDEX_REGISTRY' = r.registry
             /\ UNCHANGED <<environ, reg_ret, valVars, primVars, flowVars, typeVars, bugVars>>

CallFetchBugsnagUserLogs ==
    /\ tool.op = "none"
    /\ \E in \in BugsnagFlowInputs, now \in Nows,
          mobile \in BugsnagOutcomes, dashboard \in BugsnagOutcomes :
          \E r \in {fetch_bugsnag_user_logs(in.user_id, in.timeframe_minutes,
                                            in.start_time, in.limit_per_project, now,
                                            <<mobile, dashboard>>)} :
             /\ tool' = [op |-> "fetch_bugsnag_user_logs", args |-> in, now |-> now,
                         backends |-> <<mobile, dashboard>>, raised |-> r.raised,
                         message |-> r.message, value |-> r.value, calls |-> r.calls]
             /\ UNCHANGED <<regVars, valVars, primVars, flowVars, typeVars, bugVars>>

NextTools ==
    \/ CallSearchAppLogs
    \/ CallListActivePods
    \/ CallInvestigateIssues
    \/ CallFetchBugsnagUserLogs

SpecTools == InitTools /\ [][NextTools]_vars

(***************************************************************************)
(* Response specification: ElasticResponse.from_dict applied to the        *)
(* responses a backend can send.                                           *)
(***************************************************************************)
TotalValues == {0, 1, 42, MAX_SEARCH_SIZE}
Relations   == {"eq", "gte"}

\* hits.total: a bare integer, a {value, relation} pair, or a dict without
\* a value
Totals ==
    {[int |-> n] : n \in TotalValues}
      \cup {[dict |-> [value |-> n, relation |-> r]] : n \in TotalValues, r \in Relations}
      \cup {[dict |-> [relation |-> "eq"]]}

ResponseHits == {<<>>, <<HitError>>, <<HitError, HitSlow>>}

FromDictInputs ==
    {[took |-> 5, timed_out |-> FALSE, hits |-> [total |-> t, hits |-> h]]
        @@ Opt(sid # None, "_scroll_id", sid) :
        t \in Totals, h \in ResponseHits, sid \in {None, "scroll-1"}}
      \cup {[took |-> 5, timed_out |-> FALSE, hits |-> [hits |-> h]] : h \in ResponseHits}
      \cup {[took |-> 5, timed_out |-> TRUE]}

InitTypes ==
    /\ fd_data \in FromDictInputs
    /\ fd_ret = <<>>
    /\ INDEX_REGISTRY = InitialRegistry
    /\ environ = [n \in EnvVarNames |-> None]
    /\ reg_ret = [op |-> "none"]
    /\ IdleVal /\ IdlePrim /\ IdleFlow /\ IdleTools /\ IdleBugsnag

CallFromDict ==
    /\ fd_ret = <<>>
    /\ fd_ret' = ElasticResponse_from_dict(fd_data)
    /\ UNCHANGED <<fd_data, regVars, valVars, primVars, flowVars, toolVars, bugVars>>

NextTypes == CallFromDict

SpecTypes == InitTypes /\ [][NextTypes]_vars

(***************************************************************************)
(* Properties of the registry (SpecRegistry).                              *)
(***************************************************************************)

\* C1: get_index_config resolves the pattern with precedence explicit
\* override > environment variable > registry default: with a non-empty
\* override the returned pattern is the override, else with a non-empty
\* environment variable it is the variable's value, else the registry's.
C1_OverridePrecedence ==
    (reg_ret.op = "get_index_config" /\ reg_ret.raised = None) =>
        reg_ret.value.pattern =
            IF Truthy(reg_ret.override) THEN reg_ret.override
            ELSE IF Truthy(reg_ret.env_pattern) THEN reg_ret.env_pattern
            ELSE InitialRegistry[reg_ret.environment][reg_ret.index_type].pattern

\* C8: for environment "default" (what get_current_environment returns),
\* index_type "app_logs" and level "ERROR", get_level_mapping returns
\* ["error", "ERROR", "E", "err", "ERR"].
C8_DefaultErrorVariants ==
    (/\ reg_ret.op = "get_level_mapping"
     /\ reg_ret.environment = get_current_environment
     /\ reg_ret.index_type = "app_logs"
     /\ reg_ret.level = "ERROR") =>
        reg_ret.value = <<"error", "ERROR", "E", "err", "ERR">>

\* C9: after any sequence of get_index_config, get_field_mapping and
\* get_level_mapping calls, with or without overrides, INDEX_REGISTRY equals
\* its initial contents, and a lookup with no override in force returns the
\* registry default.
C9_RegistryNeverMutated ==
    /\ INDEX_REGISTRY = InitialRegistry
    /\ (/\ reg_ret.op = "get_index_config"
        /\ reg_ret.raised = None
        /\ ~Truthy(reg_ret.override)
        /\ ~Truthy(reg_ret.env_pattern)) =>
           reg_ret.value.pattern =
               InitialRegistry[reg_ret.environment][reg_ret.index_type].pattern

\* a lookup that replaced the pattern, by the override and by the variable
C9_OverriddenLookup ==
    /\ reg_ret.op = "get_index_config"
    /\ reg_ret.raised = None
    /\ Truthy(reg_ret.override)
    /\ Truthy(reg_ret.env_pattern)
    /\ reg_ret.value.pattern #
           InitialRegistry[reg_ret.environment][reg_ret.index_type].pattern

(***************************************************************************)
(* Properties of validate_index_pattern (SpecValidate).                    *)
(***************************************************************************)
\* the allowed set of the claim: ASCII letters, digits, '-', '_', '.', '*'
AllowedChars ==
    LowerAZ \cup UpperAZ \cup Digits09 \cup {"-"} \cup {"_"} \cup {"."} \cup {"*"}

\* C4: validate_index_pattern rejects a pattern exactly when it is empty, or
\* begins with '_', or contains a character outside {letters, digits, '-',
\* '_', '.', '*'}; every other pattern is accepted.
C4_RejectsExactly ==
    v_ret \in {"ok", "ValueError"} =>
        (v_ret = "ValueError" <=>
            \/ v_pattern = <<>>
            \/ Head(v_pattern) = "_"
            \/ \E i \in 1..Len(v_pattern) : v_pattern[i] \notin AllowedChars)

\* a pattern of allowed characters rejected only for its leading underscore
C4_LeadingUnderscoreRejected ==
    /\ v_ret = "ValueError"
    /\ Len(v_pattern) = MaxPatternLen
    /\ Head(v_pattern) = "_"
    /\ \A i \in 1..Len(v_pattern) : v_pattern[i] \in AllowedChars

(***************************************************************************)
(* Properties of the primitives (SpecPrim, FairSpecPrim).                  *)
(***************************************************************************)

\* C2: for every size passed to search_elastic_logs with a valid index
\* pattern, the request body's size lies in [1, 10000]: below 1 is sent as
\* 1, above 10000 as 10000, in range unchanged, and the call is not
\* rejected because of its size.
C2_SizeClamped ==
    (/\ ret.op = "search_elastic_logs"
     /\ validate_index_pattern(ret.index_pattern) = <<>>) =>
        /\ ret.raised # "ValueError"
        /\ Len(es_calls) = 1
        /\ es_calls[1].body.size \in 1..10000
        /\ ret.size < 1 => es_calls[1].body.size = 1
        /\ ret.size > 10000 => es_calls[1].body.size = 10000
        /\ ret.size \in 1..10000 => es_calls[1].body.size = ret.size

\* a size above the maximum and a size below 1 were sent clamped
C2_OutOfRangeSent ==
    /\ ret.op = "search_elastic_logs"
    /\ ret.size \notin 1..10000
    /\ Len(es_calls) = 1
    /\ es_calls[1].body.size \in {1, 10000}

\* C3: for search_elastic_logs, aggregate_elastic_data and
\* query_elastic_raw, the empty pattern raises a validation error and the
\* transport is invoked zero times during that call.
C3_EmptyPatternRejected ==
    (/\ ret.op \in {"search_elastic_logs", "aggregate_elastic_data",
                    "query_elastic_raw"}
     /\ ret.index_pattern = <<>>) =>
        /\ ret.raised # None
        /\ es_calls = <<>>

\* C7: once a handle returned by a scrolling search has been consumed
\* (pages exhausted, or scroll_elastic_logs failed), clear_scroll is
\* eventually attempted for it.
C7_ScrollEventuallyCleared ==
    \A h \in Handles :
        (scroll_ctx[h].state \in {"exhausted", "failed"}) ~> (h \in clear_attempted)

\* C10: when the backend call raises in search_elastic_logs,
\* aggregate_elastic_data or scroll_elastic_logs, the primitive fails with
\* an error whose message contains the cause's message, and the backend was
\* called exactly once.
C10_WrapsCauseNoRetry ==
    (/\ ret.op \in {"search_elastic_logs", "aggregate_elastic_data",
                    "scroll_elastic_logs"}
     /\ ret.cause # None) =>
        /\ ret.raised = "Exception"
        /\ \E i \in 1..Len(ret.message) : ret.message[i] = ret.cause
        /\ Len(es_calls) = 1

\* the backend raised under scroll_elastic_logs on a live handle
C10_ScrollBackendRaised ==
    /\ ret.op = "scroll_elastic_logs"
    /\ ret.scroll_id \in Handles
    /\ ret.cause = "Connection failed"
    /\ ret.raised = "Exception"

(***************************************************************************)
(* Properties of fetch_user_logs (SpecFlow).                               *)
(***************************************************************************)
FirstOrNone(logs) == IF logs = <<>> THEN <<>> ELSE <<logs[1]>>

\* what a branch must hold given the backend's reaction to its search
ExpectedLogs(backend) ==
    IF backend.raises THEN <<>> ELSE FormatAll(backend.response.hits.hits)

\* C5: for every combination of success and failure of the three
\* sub-searches, all three are attempted exactly once, the call returns
\* without raising, a failed branch is empty (most_recent_log None) and a
\* successful branch carries its own hits.
C5_BranchesIndependent ==
    flow.op = "fetch_user_logs" =>
        /\ flow.raised = None
        /\ Len(flow.calls) = 3
        /\ flow.calls[1].body.query.bool.must[3] =
               [term |-> ("json.levelname.keyword" :> "ERROR")]
        /\ "range" \in DOMAIN flow.calls[2].body.query.bool.must[3]
        /\ "should" \in DOMAIN flow.calls[3].body.query.bool
        /\ flow.value.error_logs = ExpectedLogs(flow.backends[1])
        /\ flow.value.slow_requests = ExpectedLogs(flow.backends[2])
        /\ flow.value.most_recent_log = FirstOrNone(ExpectedLogs(flow.backends[3]))
        /\ \A i \in 1..3 : flow.backends[i].raises =>
               <<flow.value.error_logs, flow.value.slow_requests,
                 flow.value.most_recent_log>>[i] = <<>>

\* one branch failed while another returned hits
C5_PartialResult ==
    /\ flow.op = "fetch_user_logs"
    /\ flow.backends[1].raises
    /\ ~flow.backends[2].raises
    /\ flow.raised = None
    /\ Len(flow.value.slow_requests) > 0
    /\ flow.value.error_logs = <<>>

\* the backends with every failure replaced by a successful zero-hit answer
ZeroHitTwin(backends) ==
    [i \in 1..3 |-> IF backends[i].raises
                    THEN Answers(SearchResponse(<<>>, None)) ELSE backends[i]]

\* C6: whenever a sub-search fails the result is marked as partial by an
\* insight noting the failed branch, so it is never identical to the result
\* produced when that branch succeeded with zero hits.
C6_FailureMarked ==
    (/\ flow.op = "fetch_user_logs"
     /\ \E i \in 1..3 : flow.backends[i].raises) =>
        flow.value #
            fetch_user_logs(flow.args.user_id, flow.args.timeframe_minutes,
                            flow.args.slow_request_threshold, flow.args.limit,
                            flow.args.start_time, flow.now,
                            ZeroHitTwin(flow.backends)).value

(***************************************************************************)
(* Properties of the tools (SpecTools)                                     *)
(***************************************************************************)
\* the environment a tool call resolves: server.py:191-192
ToolEnvironment ==
    IF tool.args.environment = None THEN get_current_environment
    ELSE tool.args.environment

\* C11: for every environment for which the registry resolves and every
\* requested limit, the size that search_app_logs sends to the backend lies
\* in [1, max_size], max_size being that of the IndexConfig resolved for
\* (environment, "app_logs").
C11_SizeWithinIndexMax ==
    (/\ tool.op = "search_app_logs"
     /\ tool.calls # <<>>) =>
        tool.calls[1].body.size \in
            1..get_index_config(INDEX_REGISTRY, environ, ToolEnvironment,
                                "app_logs", None).value.max_size

\* the minutes between the two bounds of a range filter on one field
RangeWindow(filter) ==
    LET field == Only(DOMAIN filter.range)
    IN filter.range[field].lte.minutes - filter.range[field].gte.minutes

\* the minutes between start and end of a reported search period
PeriodWindow(period) == period["end"].minutes - period.start.minutes

\* a requested timeframe as the claim says it is used: at least 1 minute, at
\* most the maximum
UsedTimeframe(minutes) ==
    IF minutes < 1 THEN 1
    ELSE IF minutes > MAX_TIMEFRAME_MINUTES THEN MAX_TIMEFRAME_MINUTES
    ELSE minutes

\* C12: every tool that takes timeframe_minutes (search_app_logs,
\* list_active_pods, fetch_user_logs, fetch_bugsnag_user_logs) clamps it into
\* [1, max_timeframe] before any time bound is computed: the window between
\* the time bounds it computes is the clamped value.
C12_TimeframeClamped ==
    /\ (tool.op = "search_app_logs" /\ tool.calls # <<>>) =>
          RangeWindow(tool.calls[1].body.query.bool.must[1])
              = UsedTimeframe(tool.args.timeframe_minutes)
    /\ (tool.op = "list_active_pods" /\ tool.calls # <<>>) =>
          RangeWindow(tool.calls[1].body.query)
              = UsedTimeframe(tool.args.timeframe_minutes)
    /\ (flow.op = "fetch_user_logs" /\ flow.raised = None) =>
          PeriodWindow(flow.value.summary.search_period)
              = UsedTimeframe(flow.args.timeframe_minutes)
    /\ (tool.op = "fetch_bugsnag_user_logs" /\ tool.raised = None) =>
          PeriodWindow(tool.value.search_period)
              = UsedTimeframe(tool.args.timeframe_minutes)

(***************************************************************************)
(* Properties of the response types (SpecTypes)                            *)
(***************************************************************************)
\* the response carries a hits.total
HasTotal == "hits" \in DOMAIN fd_data /\ "total" \in DOMAIN fd_data.hits

\* C13: ElasticResponse.from_dict normalizes total to an integer for every
\* backend response: a bare integer total n yields n, and a structured total
\* {value: n, relation: r} yields n for every relation r.
C13_TotalNormalized ==
    fd_ret # <<>> =>
        /\ fd_ret.total \in Int
        /\ (HasTotal /\ "int" \in DOMAIN fd_data.hits.total) =>
              fd_ret.total = fd_data.hits.total.int
        /\ (/\ HasTotal
            /\ "dict" \in DOMAIN fd_data.hits.total
            /\ "value" \in DOMAIN fd_data.hits.total.dict) =>
              fd_ret.total = fd_data.hits.total.dict.value

\* {"value": 42, "relation": "gte"} has been normalized to 42
C13_ApproximateTotal ==
    /\ fd_ret # <<>>
    /\ HasTotal
    /\ fd_data.hits.total = [dict |-> [value |-> 42, relation |-> "gte"]]
    /\ fd_ret.total = 42

(***************************************************************************)
(* Properties of the mapping lookups (SpecRegistry)                        *)
(***************************************************************************)
\* the registry holds a field name for the logical field
HasFieldMapping(store, environment, index_type, field_name) ==
    /\ environment \in DOMAIN store
    /\ index_type \in DOMAIN store[environment]
    /\ "fields" \in DOMAIN store[environment][index_type]
    /\ field_name \in DOMAIN store[environment][index_type].fields

\* the level is a key of the index's level ValueMap
HasLevelMapping(store, environment, index_type, level) ==
    /\ environment \in DOMAIN store
    /\ index_type \in DOMAIN store[environment]
    /\ "mappings" \in DOMAIN store[environment][index_type]
    /\ "level" \in DOMAIN store[environment][index_type].mappings
    /\ level \in DOMAIN store[environment][index_type].mappings.level

\* C14: for every (environment, index_type, logical field) for which the
\* registry holds no mapping, including an unknown environment and an
\* unknown index_type, get_field_mapping returns absent (None) and never
\* raises.
C14_UnmappedFieldAbsent ==
    (/\ reg_ret.op = "get_field_mapping"
     /\ ~HasFieldMapping(INDEX_REGISTRY, reg_ret.environment, reg_ret.index_type,
                         reg_ret.field_name)) =>
        /\ reg_ret.raised = None
        /\ reg_ret.value = None

\* a lookup on an index type the environment does not define came back absent
C14_UnknownIndexType ==
    /\ reg_ret.op = "get_field_mapping"
    /\ reg_ret.environment = "staging"
    /\ reg_ret.index_type = "metrics"
    /\ reg_ret.field_name = "timestamp"
    /\ reg_ret.raised = None
    /\ reg_ret.value = None

\* C15: for every (environment, index_type, level) where level is not a key
\* of that index's level ValueMap, including an unknown environment, an
\* unknown index_type and an index that defines no ValueMap,
\* get_level_mapping returns the one-element list [level] with the token
\* unmodified and never raises.
C15_UnmappedLevelItself ==
    (/\ reg_ret.op = "get_level_mapping"
     /\ ~HasLevelMapping(INDEX_REGISTRY, reg_ret.environment, reg_ret.index_type,
                         reg_ret.level)) =>
        /\ reg_ret.raised = None
        /\ reg_ret.value = <<reg_ret.level>>

\* a token that is a value, not a key, of the production ValueMap came back
\* as itself
C15_LowercaseToken ==
    /\ reg_ret.op = "get_level_mapping"
    /\ reg_ret.environment = "production"
    /\ reg_ret.index_type = "app_logs"
    /\ reg_ret.level = "error"
    /\ reg_ret.value = <<"error">>

(***************************************************************************)
(* Properties of the user flow (SpecFlow), continued                       *)
(***************************************************************************)
\* every one of the three searches was answered with zero hits
AllBranchesEmpty ==
    /\ flow.op = "fetch_user_logs"
    /\ \A i \in 1..3 : /\ ~flow.backends[i].raises
                       /\ flow.backends[i].response.hits.hits = <<>>

\* C16: when the backend returns zero hits for all three sub-searches of
\* fetch_user_logs, the result has error_logs = [], slow_requests = [],
\* most_recent_log = None, summary counts of 0, has_recent_activity = false,
\* and an insight list that contains a "no logs found for this user" message.
C16_EmptyResult ==
    AllBranchesEmpty =>
        /\ flow.raised = None
        /\ flow.value.error_logs = <<>>
        /\ flow.value.slow_requests = <<>>
        /\ flow.value.most_recent_log = <<>>
        /\ flow.value.summary.total_errors = 0
        /\ flow.value.summary.total_slow_requests = 0
        /\ flow.value.summary.has_recent_activity = FALSE
        /\ \E i \in DOMAIN flow.value.summary.insights :
              flow.value.summary.insights[i] =
                  <<"No logs found for this user - verify user ID or field mapping">>

\* the scenario fetch_user_logs(user_id=41343, timeframe_minutes=60) against
\* a backend without any hit has returned
C16_NoHitsScenario ==
    /\ AllBranchesEmpty
    /\ flow.args.user_id = 41343
    /\ flow.args.timeframe_minutes = 60
    /\ flow.raised = None
    /\ flow.value.most_recent_log = <<>>

\* the identity filter the claim describes, for the user of the call
IdentityFilter ==
    [bool |-> [should |-> << [term |-> ("json.mobile_user_id" :> flow.args.user_id)],
                             [term |-> ("json.user_id.keyword" :>
                                          IF flow.args.user_id = 41343 THEN "41343"
                                          ELSE "7")] >>,
               minimum_should_match |-> 1]]

\* C17: in fetch_user_logs every one of the three searches contains the same
\* identity filter (should of term json.mobile_user_id = user_id and term
\* json.user_id.keyword = str(user_id), minimum_should_match 1), and the
\* most-recent search consists of that filter alone with no time range,
\* size 1 and sort by @timestamp descending, whatever timeframe_minutes,
\* limit or start_time was requested.
C17_IdentityFilterEverywhere ==
    flow.op = "fetch_user_logs" =>
        /\ Len(flow.calls) = 3
        /\ \A i \in {1, 2} :
              \E j \in DOMAIN flow.calls[i].body.query.bool.must :
                 flow.calls[i].body.query.bool.must[j] = IdentityFilter
        /\ flow.calls[3].body.query = IdentityFilter
        /\ flow.calls[3].body.size = 1
        /\ flow.calls[3].body.sort = << ("@timestamp" :> [order |-> "desc"]) >>

\* a call with a limit and a timeframe beyond their maxima has sent its
\* most-recent search
C17_WideRequest ==
    /\ flow.op = "fetch_user_logs"
    /\ flow.args.timeframe_minutes > MAX_TIMEFRAME_MINUTES
    /\ Len(flow.calls) = 3
    /\ flow.calls[3].body.query = IdentityFilter
    /\ flow.calls[3].body.size = 1

(***************************************************************************)
(* Properties of the tools (SpecTools), continued                          *)
(***************************************************************************)
\* a raw hit AppLog can be built from: a well-formed @timestamp and a level
\* name that is, in upper case, one of the five levels (INFO when absent)
Parseable(hit) ==
    /\ "_source" \in DOMAIN hit
    /\ "@timestamp" \in DOMAIN hit._source
    /\ hit._source["@timestamp"].kind = "iso"
    /\ ("json" \in DOMAIN hit._source /\ "levelname" \in DOMAIN hit._source.json) =>
          UpperLevel(hit._source.json.levelname)
              \in {"DEBUG", "INFO", "WARNING", "ERROR", "CRITICAL"}

\* the normalized entries of the parseable hits, in the order of the hits
ParseableEntries(hits) ==
    LET kept == SelectSeq(hits, Parseable)
    IN [i \in DOMAIN kept |-> NormalizedEntry(AppLog_from_elastic(kept[i]))]

C19_JoinedBeforeReturn ==
    bs_pc = "returned" =>
        /\ bs_task.state \in {"none", "done"}
        /\ bs_worker \in {"none", "exited"}

\* a primitive called under a running loop has returned after its 30 s
\* timeout fired
C19_ReturnedAfterTimeout ==
    /\ bs_pc = "returned"
    /\ bs_call.loop_running
    /\ bs_ret.timed_out
    /\ bs_task.state = "done"
    /\ bs_worker = "exited"

(***************************************************************************)
(* Properties of investigate_issues (SpecTools)                            *)
(***************************************************************************)
\* C20: investigate_issues absorbs a backend error per branch: when any one
\* of its three sub-searches (errors, warnings, slow requests) fails with a
\* backend error, the remaining sub-searches are still executed, the failed
\* branch counts as empty, and the call returns a report instead of raising.
C20_BranchErrorsAbsorbed ==
    (/\ tool.op = "investigate_issues"
     /\ tool.calls # <<>>
     /\ \E i \in 1..3 : tool.backends[i].raises) =>
        /\ tool.raised = None
        /\ Len(tool.calls) = 3
        /\ tool.backends[1].raises => tool.value.error_count = 0
        /\ tool.backends[2].raises => tool.value.warning_count = 0
        /\ tool.backends[3].raises => tool.value.slow_request_count = 0

(***************************************************************************)
(* Tool specification on a registry whose development FieldMap lacks one   *)
(* of the logical fields the wrapper tools look up (a FieldMap is partial: *)
(* the development one maps 5 of the 13 production fields, and the         *)
(* mapping of tests/integration/test_mcp_tools.py maps no "service").      *)
(***************************************************************************)
\* the logical fields search_app_logs and list_active_pods look up
ToolFields == {"timestamp", "pod", "service", "level", "message"}

\* a FieldMap without the logical field
WithoutField(fields, field_name) ==
    [k \in DOMAIN fields \ {field_name} |-> fields[k]]

SparseRegistries ==
    {[InitialRegistry EXCEPT !.development.app_logs.fields =
          WithoutField(InitialRegistry.development.app_logs.fields, f)] :
        f \in ToolFields}

InitSparseTools ==
    /\ tool = [op |-> "none"]
    /\ INDEX_REGISTRY \in SparseRegistries
    /\ environ \in ToolEnvirons
    /\ reg_ret = [op |-> "none"]
    /\ IdleVal /\ IdlePrim /\ IdleFlow /\ IdleTypes /\ IdleBugsnag

SpecSparseTools == InitSparseTools /\ [][NextTools]_vars

(***************************************************************************)
(* Properties of the wrapper tools on a partial FieldMap (SpecSparseTools) *)
(***************************************************************************)
\* the fields a query fragment names
QueriedFields(fragment) ==
    IF "range" \in DOMAIN fragment THEN DOMAIN fragment.range
    ELSE IF "term" \in DOMAIN fragment THEN DOMAIN fragment.term
    ELSE IF "terms" \in DOMAIN fragment THEN DOMAIN fragment.terms
    ELSE IF "match" \in DOMAIN fragment THEN DOMAIN fragment.match
    ELSE IF "bool" \in DOMAIN fragment
    THEN UNION {DOMAIN fragment.bool.should[i].term :
                  i \in DOMAIN fragment.bool.should}
    ELSE {}

\* the physical names the resolved FieldMap holds, and their keyword forms
MappedNames ==
    LET fields == INDEX_REGISTRY[ToolEnvironment].app_logs.fields
    IN {fields[k] : k \in DOMAIN fields}
         \cup {Keyword(fields[k]) : k \in DOMAIN fields \cap {"pod", "service", "level"}}

\* the fields named anywhere in the request of a wrapper tool
RequestFields ==
    IF tool.op = "search_app_logs"
    THEN UNION {QueriedFields(tool.calls[1].body.query.bool.must[j]) :
                  j \in DOMAIN tool.calls[1].body.query.bool.must}
           \cup UNION {DOMAIN tool.calls[1].body.sort[j] :
                         j \in DOMAIN tool.calls[1].body.sort}
    ELSE QueriedFields(tool.calls[1].body.query)
           \cup {tool.calls[1].body.aggs.pods.terms.field}

C22_ClearScrollNeverRaises ==
    ret.op = "clear_scroll" => ret.raised = None


\* the cardinality a backend response reports: the value of its unique_count
\* aggregation, 0 where the response does not carry one
ReportedCardinality(response) ==
    IF "aggregations" \notin DOMAIN response THEN 0
    ELSE IF "unique_count" \notin DOMAIN response.aggregations THEN 0
    ELSE IF "value" \notin DOMAIN response.aggregations.unique_count THEN 0
    ELSE response.aggregations.unique_count.value.whole

\* C23: whenever the backend answers get_field_cardinality, the call does not
\* raise; it returns 0 if the response has no aggregations, no unique_count
\* entry or no value in that entry, and the reported value as an integer
\* otherwise
C23_CardinalityOrZero ==
    (/\ ret.op = "get_field_cardinality"
     /\ es_calls # <<>>
     /\ ~ret.backend.raises)
       => /\ ret.raised = None
          /\ ret.value = ReportedCardinality(ret.backend.response)

\* a response without the aggregations key was answered with 0
C23_NoAggregationsKey ==
    /\ ret.op = "get_field_cardinality"
    /\ es_calls # <<>>
    /\ ~ret.backend.raises
    /\ "aggregations" \notin DOMAIN ret.backend.response
    /\ ret.raised = None
    /\ ret.value = 0


ClampOps == {"clamp_value", "validate_size", "validate_timeframe"}

\* the three cases of a clamp into [1, max] and its idempotence, for the
\* last call
ClampedAsStated ==
    /\ (1 <= ret.value /\ ret.value <= ret.max_value) => ret.result = ret.value
    /\ ret.value < 1 => ret.result = 1
    /\ ret.value > ret.max_value => ret.result = ret.max_value
    /\ ret.again = ret.result

\* C24, as stated: for all integers s and max, clamp_value(s, 1, max),
\* validate_size(s, max) and validate_timeframe(s, max) return s if
\* 1 <= s <= max, 1 if s < 1 and max if s > max, and clamping the result
\* again changes nothing.
C24_ClampForEveryMax == ret.op \in ClampOps => ClampedAsStated

\* C24, amended: the same for all integers s and every max >= 1.
C24_ClampForMaxAtLeastOne ==
    (ret.op \in ClampOps /\ ret.max_value >= 1) => ClampedAsStated

\* a timeframe above its maximum came back as the maximum
C24_AboveMaximum ==
    /\ ret.op = "validate_timeframe"
    /\ ret.max_value >= 1
    /\ ret.value > ret.max_value
    /\ ret.result = ret.max_value
    /\ ret.again = ret.max_value


\* the range object of the last build_time_range_query
BuiltRange == ret.value.range[ret.field]

\* C25: build_time_range_query emits gte exactly when a start bound is
\* present and lte exactly when an end bound is present; with minutes_ago = m
\* it emits both, lte is the clock's reading and lte - gte is exactly m
\* minutes, hence gte lies before lte for the m of 1 to 1440 that the tools
\* pass.
C25_BoundsAsGiven ==
    ret.op = "build_time_range_query" =>
        /\ DOMAIN ret.value = {"range"}
        /\ DOMAIN ret.value.range = {ret.field}
        /\ DOMAIN BuiltRange \subseteq {"gte", "lte"}
        /\ ret.minutes_ago = <<>> =>
              /\ "gte" \in DOMAIN BuiltRange <=> ret.start # <<>>
              /\ "lte" \in DOMAIN BuiltRange <=> ret.end # <<>>
              /\ ret.start # <<>> => BuiltRange.gte.minutes = ret.start[1].t
              /\ ret.end # <<>> => BuiltRange.lte.minutes = ret.end[1].t
        /\ ret.minutes_ago # <<>> =>
              /\ DOMAIN BuiltRange = {"gte", "lte"}
              /\ BuiltRange.lte.minutes = ret.now
              /\ BuiltRange.lte.minutes - BuiltRange.gte.minutes = ret.minutes_ago[1]
              /\ ret.minutes_ago[1] \in 1..MAX_TIMEFRAME_MINUTES =>
                     BuiltRange.gte.minutes < BuiltRange.lte.minutes

\* a window of 60 minutes ending at the clock's reading, the explicit bounds
\* given with it set aside
C25_SixtyMinuteWindow ==
    /\ ret.op = "build_time_range_query"
    /\ ret.minutes_ago = <<60>>
    /\ ret.start # <<>>
    /\ BuiltRange.lte.minutes = ret.now
    /\ BuiltRange.gte.minutes = ret.now - 60

UTCOffsets == {"+00:00", "Z"}

\* C26: every timestamp build_time_range_query writes into a range filter,
\* from an explicit bound (a datetime aware in UTC) or computed from
\* minutes_ago, carries an explicit UTC offset.
C26_ExplicitUTCOffset ==
    (ret.op = "build_time_range_query"
       /\ (ret.minutes_ago = <<>> =>
              \A bound \in {ret.start, ret.end} :
                 bound # <<>> => bound[1].tz \in UTCOffsets))
      => \A k \in DOMAIN BuiltRange : BuiltRange[k].offset \in UTCOffsets

ClauseKeys == {"must", "must_not", "should", "filter"}

\* C27: build_bool_query emits a clause key exactly when its list is given
\* and non-empty, with the fragments of that list unchanged and never an
\* empty array, and minimum_should_match exactly when it was given; it emits
\* nothing else, so must=[f1, f2] alone yields the single key must holding
\* [f1, f2].
C27_ClausesAsGiven ==
    ret.op = "build_bool_query" =>
        /\ DOMAIN ret.value = {"bool"}
        /\ DOMAIN ret.value.bool \subseteq ClauseKeys \cup {"minimum_should_match"}
        /\ \A k \in ClauseKeys :
              /\ k \in DOMAIN ret.value.bool <=> ret.clauses[k] # <<>>
              /\ k \in DOMAIN ret.value.bool =>
                    /\ ret.value.bool[k] = ret.clauses[k]
                    /\ Len(ret.value.bool[k]) > 0
        /\ "minimum_should_match" \in DOMAIN ret.value.bool
              <=> ret.minimum_should_match # <<>>
        /\ ret.minimum_should_match # <<>> =>
              ret.value.bool.minimum_should_match = ret.minimum_should_match[1]

\* build_bool_query(must=[f1, f2]) gave exactly {"bool": {"must": [f1, f2]}}
C27_MustOnly ==
    /\ ret.op = "build_bool_query"
    /\ ret.clauses = [must |-> <<Fragment1, Fragment2>>, must_not |-> <<>>,
                      should |-> <<>>, filter |-> <<>>]
    /\ ret.minimum_should_match = <<>>
    /\ DOMAIN ret.value.bool = {"must"}
    /\ ret.value.bool.must = <<Fragment1, Fragment2>>


\* the search of a project failed: it raised, or returned an error value
ProjectFailed(outcome) ==
    IF outcome = <<>> THEN TRUE ELSE Get(outcome[1], "error", FALSE)

\* the errors a project's search returned, none if it failed
ErrorsOf(outcome) ==
    IF ProjectFailed(outcome) THEN <<>> ELSE Get(outcome[1], "errors", <<>>)

\* C28: whatever the outcome of each project's search (errors, an error
\* value, an exception), fetch_bugsnag_user_logs searches both projects,
\* projects_searched holds one entry per project in project order, a failed
\* project counts 0 errors and leaves the other project's errors in place,
\* and total_errors_across_platforms = total_mobile_errors +
\* total_dashboard_errors = the number of mobile_errors plus
\* dashboard_errors.
C28_EveryProjectSearched ==
    tool.op = "fetch_bugsnag_user_logs" =>
        /\ tool.raised = None
        /\ [i \in DOMAIN tool.calls |-> tool.calls[i].project_id]
              = [i \in DOMAIN BugsnagProjects |-> BugsnagProjects[i].id]
        /\ [i \in DOMAIN tool.value.projects_searched |->
                tool.value.projects_searched[i].project_id]
              = [i \in DOMAIN BugsnagProjects |-> BugsnagProjects[i].id]
        /\ \A i \in DOMAIN BugsnagProjects :
              /\ tool.value.projects_searched[i].errors_found
                    = Len(ErrorsOf(tool.backends[i]))
              /\ tool.value.projects_searched[i].status
                    = IF ProjectFailed(tool.backends[i]) THEN "error" ELSE "success"
        /\ Len(tool.value.mobile_errors) = Len(ErrorsOf(tool.backends[1]))
        /\ Len(tool.value.dashboard_errors) = Len(ErrorsOf(tool.backends[2]))
        /\ tool.value.summary.total_mobile_errors = Len(tool.value.mobile_errors)
        /\ tool.value.summary.total_dashboard_errors = Len(tool.value.dashboard_errors)
        /\ tool.value.summary.total_errors_across_platforms
              = tool.value.summary.total_mobile_errors
                  + tool.value.summary.total_dashboard_errors

\* the mobile search raised and the dashboard search returned two errors
C28_MobileFailedDashboardFound ==
    /\ tool.op = "fetch_bugsnag_user_logs"
    /\ tool.backends[1] = <<>>
    /\ Len(ErrorsOf(tool.backends[2])) = 2
    /\ Len(tool.value.projects_searched) = 2
    /\ tool.value.projects_searched[1].status = "error"
    /\ tool.value.summary.total_errors_across_platforms = 2


\* C29: the name get_current_environment returns is a key of the index
\* registry whose entry has "app_logs", so search_app_logs and
\* list_active_pods called without an environment reach the backend: they
\* do not fail on an unknown environment or index type.
C29_DefaultEnvironmentRegistered ==
    (/\ tool.op \in {"search_app_logs", "list_active_pods"}
     /\ tool.args.environment = None)
       => /\ get_current_environment \in DOMAIN INDEX_REGISTRY
          /\ "app_logs" \in DOMAIN INDEX_REGISTRY[get_current_environment]
          /\ tool.calls # <<>>
          /\ tool.raised # "KeyError"


(***************************************************************************)
(* The search period of fetch_user_logs (SpecFlow)                         *)
(***************************************************************************)
\* the range object of the time filter in the i-th search of the last call
FlowTimeFilter(i) == flow.calls[i].body.query.bool.must[2].range["@timestamp"]

\* C30: for every timeframe_minutes and every start_time (absent, parseable
\* or not), the search_period of the summary of fetch_user_logs spans the
\* timeframe clamped into [1, 1440] minutes, so its start lies before its
\* end, the summary's timeframe_minutes is that clamped value, and the
\* period's bounds are the gte and lte of the time filter of the error
\* search and of the slow-request search.
C30_SearchPeriodIsClampedWindow ==
    flow.op = "fetch_user_logs" =>
        /\ flow.raised = None
        /\ PeriodWindow(flow.value.summary.search_period)
              = UsedTimeframe(flow.args.timeframe_minutes)
        /\ flow.value.summary.search_period.start.minutes
              < flow.value.summary.search_period["end"].minutes
        /\ flow.value.summary.timeframe_minutes
              = UsedTimeframe(flow.args.timeframe_minutes)
        /\ \A i \in {1, 2} :
              /\ DOMAIN FlowTimeFilter(i) = {"gte", "lte"}
              /\ FlowTimeFilter(i).gte = flow.value.summary.search_period.start
              /\ FlowTimeFilter(i).lte = flow.value.summary.search_period["end"]

\* an unparseable start_time with a timeframe above the maximum: a day
\* ending at the clock's reading
C30_FallbackDay ==
    /\ flow.op = "fetch_user_logs"
    /\ flow.args.start_time.kind = "garbage"
    /\ flow.args.timeframe_minutes > MAX_TIMEFRAME_MINUTES
    /\ flow.value.summary.search_period["end"].minutes = flow.now
    /\ flow.value.summary.search_period.start.minutes
          = flow.now - MAX_TIMEFRAME_MINUTES
    /\ FlowTimeFilter(1).gte.minutes = flow.now - MAX_TIMEFRAME_MINUTES

====
